---- MODULE Spec2Model ----
(***************************************************************************)
(* A model of the text-extraction pipeline of vec_search_demo:             *)
(*   - get_extractor_for_file, TextFileTextExtractor, TikaTextExtractor    *)
(*                                       (text_extraction/basic_extraction) *)
(*   - extract_and_normalize_text, index_post      (app.py)                *)
(*   - PDFFile and PDFTextExtractor      (text_extraction/pdf_extraction)   *)
(*   - WordFileTextExtractor, PresentationTextExtractor                    *)
(*                                  (text_extraction/office_doc_extraction) *)
(*   - the normalisation helpers, com_app, run_pandoc                      *)
(*                                       (text_extraction/extraction_utils) *)
(*                                                                         *)
(* Strings are sequences of one-character strings.  Each subsystem has its *)
(* own specification (SpecDispatch, SpecExtract, SpecPDF, SpecPDFFile,     *)
(* SpecOffice, SpecNormalize, SpecUpload, SpecTextFile, SpecTika) over the *)
(* shared variables; a specification leaves the variables of the other     *)
(* subsystems at their idle values.                                        *)
(***************************************************************************)
EXTENDS Integers, Sequences, FiniteSets, TLC

VARIABLES
    pc,              \* position of the running call
    file_path,       \* the file name handed to the dispatcher / orchestrator
    extractors,      \* the extractor list handed to get_extractor_for_file
    extractor,       \* get_extractor_for_file's result: an index, 0 for None
    text,            \* extract_and_normalize_text: the local `text`
    calls,           \* extract_and_normalize_text: the extractors invoked, in order
    outcome,         \* what the caller of the running call receives
    pdf_file,        \* PDF path on disk: what the file system / fitz say about it
    pdf,             \* the PDFFile handle (`pdf` in __call__), None when unbound
    doc,             \* the fitz document of __call__: "None", "open" or "closed"
    extracted_text,  \* __call__'s extracted_text
    exc,             \* the exception in flight in __call__, None when there is none
    ocr_params,      \* PDFTextExtractor.ocr_params (the instance configuration)
    ocr_calls,       \* spy on extract_text_with_ocr: the ocr_params of each call
    get_text_calls,  \* spy on the direct page.get_text() calls of _fitz_doc_text
    temp_dirs,       \* the temporary directories that currently exist
    has_unidecode,   \* extraction_utils._HAS_UNIDECODE, fixed at import
    direct_text,     \* spy: the text the page loop of _fitz_doc_text concatenated
    ocr_output,      \* spy: the text of the PDF that ocrmypdf wrote
    computes,        \* spy: how often each cached PDFFile property was computed
    reads,           \* SpecPDFFile: property reads made so far, with their values
    env,             \* what the file system and the collaborators answer in this run
    events,          \* spy: the calls made to collaborators and resources, in order
    handler,         \* index_post: position of the upload handler
    error,           \* index_post: the local `error`
    normalized,      \* the results of successive runs of the normalisation chain
    converted,       \* PresentationTextExtractor.__call__: the local `converted`
    mime             \* TikaTextExtractor.__call__: the local `mime`

vars == << pc, file_path, extractors, extractor, text, calls, outcome,
           pdf_file, pdf, doc, extracted_text, exc, ocr_params, ocr_calls,
           get_text_calls, temp_dirs, has_unidecode, direct_text, ocr_output,
           computes, reads, env, events, handler, error, normalized,
           converted, mime >>

\* the variables of the office, text-file, Tika, upload and normalisation
\* specifications
restVars == << env, events, handler, error, normalized, converted, mime >>

dispatchVars == << file_path, extractors, extractor >>
extractVars == << text, calls, has_unidecode >>
pdfVars == << pdf_file, pdf, doc, extracted_text, exc, ocr_params, ocr_calls,
              get_text_calls, temp_dirs, direct_text, ocr_output, computes, reads,
              restVars >>

None == "None"

(***************************************************************************)
(* Bounds of the model.                                                    *)
(***************************************************************************)
MaxNameLen == 4
MaxExtractors == 2
MaxPages == 3
MaxTextLen == 2
MaxReads == 3

(***************************************************************************)
(* Generic sequence helpers.                                               *)
(***************************************************************************)
SeqsUpTo(S, n) == UNION { [1..k -> S] : k \in 0..n }

In(x, list) == \E i \in DOMAIN list : list[i] = x

Max(a, b) == IF a >= b THEN a ELSE b

Min(a, b) == IF a <= b THEN a ELSE b

(***************************************************************************)
(* str.lower(), Path.suffix and str.lstrip(".") on character sequences.    *)
(***************************************************************************)
UpperChars == << "A","B","C","D","E","F","G","H","I","J","K","L","M",
                 "N","O","P","Q","R","S","T","U","V","W","X","Y","Z" >>
LowerChars == << "a","b","c","d","e","f","g","h","i","j","k","l","m",
                 "n","o","p","q","r","s","t","u","v","w","x","y","z" >>

lower_char(c) ==
    IF \E i \in DOMAIN UpperChars : UpperChars[i] = c
    THEN LowerChars[CHOOSE i \in DOMAIN UpperChars : UpperChars[i] = c]
    ELSE c

lower(s) == [i \in DOMAIN s |-> lower_char(s[i])]

\* str.rfind(ch) as a 1-based index, 0 when ch does not occur
rfind(s, ch) ==
    IF \E i \in DOMAIN s : s[i] = ch
    THEN CHOOSE i \in DOMAIN s : s[i] = ch /\ \A j \in DOMAIN s : s[j] = ch => j <= i
    ELSE 0

\* pathlib's PurePath.suffix of a final path component:
\*   i = name.rfind('.'); name[i:] if 0 < i < len(name) - 1 else ''
suffix(name) ==
    LET k == rfind(name, ".")
    IN  IF 1 < k /\ k < Len(name) THEN SubSeq(name, k, Len(name)) ELSE << >>

RECURSIVE lstrip(_, _)
lstrip(s, ch) ==
    IF s # << >> /\ Head(s) = ch THEN lstrip(Tail(s), ch) ELSE s

\* basic_extraction.py:220
file_extension(path) == lstrip(lower(suffix(path)), ".")

(***************************************************************************)
(* get_extractor_for_file: the first extractor, in list order, declaring   *)
(* the extension; 0 stands for None.                                       *)
(***************************************************************************)
RECURSIVE LastMatch(_, _, _)
LastMatch(ext, list, i) ==
    IF i < 1 THEN 0
    ELSE IF In(ext, list[i].file_extensions) THEN i
    ELSE LastMatch(ext, list, i - 1)

get_extractor_for_file_last(path, list) ==
    LastMatch(file_extension(path), list, Len(list))

RECURSIVE FirstMatch(_, _, _)
FirstMatch(ext, list, i) ==
    IF i > Len(list) THEN 0
    ELSE IF In(ext, list[i].file_extensions) THEN i
    ELSE FirstMatch(ext, list, i + 1)

get_extractor_for_file(path, list) ==
    FirstMatch(file_extension(path), list, 1)

(***************************************************************************)
(* SpecDispatch: get_extractor_for_file applied to bounded file names and  *)
(* bounded extractor lists.                                                *)
(***************************************************************************)
NameChars == { "a", "p", "P", "." }

FileNames == SeqsUpTo(NameChars, MaxNameLen) \ { << >> }

ExtensionLists ==
    { << >>, << <<"p">> >>, << <<"p">>, <<"p","a">> >>, << <<"a">>, <<"p">> >> }

ExtractorLists ==
    SeqsUpTo({ [cls |-> "Extractor", file_extensions |-> l] : l \in ExtensionLists },
             MaxExtractors)

IdleRest ==
    /\ env = None
    /\ events = << >>
    /\ handler = None
    /\ error = None
    /\ normalized = << >>
    /\ converted = None
    /\ mime = None

IdlePdf ==
    /\ pdf_file = None
    /\ pdf = None
    /\ doc = None
    /\ extracted_text = None
    /\ exc = None
    /\ ocr_params = None
    /\ ocr_calls = << >>
    /\ get_text_calls = 0
    /\ temp_dirs = { }
    /\ direct_text = None
    /\ ocr_output = None
    /\ computes = None
    /\ reads = << >>

IdleExtract ==
    /\ text = None
    /\ calls = << >>
    /\ has_unidecode = None

InitDispatch ==
    /\ pc = "dispatch"
    /\ file_path \in FileNames
    /\ extractors \in ExtractorLists
    /\ extractor = None
    /\ outcome = None
    /\ IdleExtract
    /\ IdlePdf
    /\ IdleRest

Dispatch ==
    /\ pc = "dispatch"
    /\ extractor' = get_extractor_for_file(file_path, extractors)
    /\ outcome' = [kind |-> "return", value |-> extractor']
    /\ pc' = "done"
    /\ UNCHANGED << file_path, extractors, extractVars, pdfVars >>

NextDispatch == Dispatch

SpecDispatch == InitDispatch /\ [][NextDispatch]_vars

(***************************************************************************)
(* C1.  get_extractor_for_file returns the first extractor, in list order, *)
(* whose file_extensions contains the file's lowercased extension without  *)
(* its leading dot, and None (0) when no extractor declares it; it never   *)
(* returns a later match when an earlier one exists.                       *)
(***************************************************************************)
\* d is the lower-case form of c
LowerOf(c, d) ==
    \/ /\ ~ \E i \in DOMAIN UpperChars : UpperChars[i] = c
       /\ d = c
    \/ \E i \in DOMAIN UpperChars : UpperChars[i] = c /\ d = LowerChars[i]

\* e is the lowercased extension of name: the part after the last dot, when
\* that dot is neither the first nor the last character; empty otherwise
IsExtensionOf(e, name) ==
    LET dots == { k \in 2..(Len(name) - 1) :
                    /\ name[k] = "."
                    /\ \A j \in (k + 1)..Len(name) : name[j] # "." }
    IN  IF dots = { } \/ name[Len(name)] = "."
        THEN e = << >>
        ELSE \E k \in dots :
                /\ Len(e) = Len(name) - k
                /\ \A i \in 1..Len(e) : LowerOf(name[k + i], e[i])

Declares(x, e) == \E i \in DOMAIN x.file_extensions : x.file_extensions[i] = e

\* the empty string and the lower-cased proper tails of name: the strings that
\* can be its extension
TailsLowered(name) ==
    { << >> } \cup
    { [i \in 1..(Len(name) - k) |->
          CHOOSE d \in { "a", "p", "." } : LowerOf(name[k + i], d)] :
        k \in 1..(Len(name) - 1) }

PDF_EXTS ==
    << <<"p","d","f">> >>

TXT_EXTS ==
    << <<"t","x","t">>, <<"m","d">>, <<"l","o","g">>, <<"c","s","v">>,
       <<"j","s","o","n">>, <<"x","m","l">>, <<"y","a","m","l">>,
       <<"y","m","l">>, <<"i","n","i">>, <<"c","f","g">>, <<"c","o","n","f">> >>

IMAGE_EXTS ==
    << <<"p","n","g">>, <<"j","p","g">>, <<"j","p","e","g">>, <<"t","i","f">>,
       <<"t","i","f","f">>, <<"b","m","p">>, <<"g","i","f">> >>

PRESENTATION_EXTS ==
    << <<"p","p","t","x">>, <<"p","p","t","m">>, <<"p","p","s","x">>,
       <<"p","p","t">>, <<"p","p","s">>, <<"o","d","p">> >>

SPREADSHEET_EXTS ==
    << <<"x","l","s","x">>, <<"x","l","s","m">>, <<"x","l","s">>,
       <<"x","l","s","b">>, <<"o","d","s">>, <<"c","s","v">>, <<"t","s","v">> >>

WORD_EXTS ==
    << <<"d","o","c","x">>, <<"d","o","c","m">>, <<"d","o","c">>, <<"r","t","f">> >>

HTML_EXTS ==
    << <<"h","t","m","l">>, <<"h","t","m">>, <<"m","h","t","m","l">>, <<"m","h","t">> >>

EMAIL_EXTS ==
    << <<"e","m","l">>, <<"m","s","g">> >>

extractors_list ==
    << [cls |-> "PDFTextExtractor",          file_extensions |-> PDF_EXTS],
       [cls |-> "TextFileTextExtractor",     file_extensions |-> TXT_EXTS],
       [cls |-> "ImageTextExtractor",        file_extensions |-> IMAGE_EXTS],
       [cls |-> "PresentationTextExtractor", file_extensions |-> PRESENTATION_EXTS],
       [cls |-> "SpreadsheetTextExtractor",  file_extensions |-> SPREADSHEET_EXTS],
       [cls |-> "WordFileTextExtractor",     file_extensions |-> WORD_EXTS],
       [cls |-> "HtmlTextExtractor",         file_extensions |-> HTML_EXTS],
       [cls |-> "EmailTextExtractor",        file_extensions |-> EMAIL_EXTS] >>

tika_extractor == "TikaTextExtractor"

(***************************************************************************)
(* The normalisation helpers of extraction_utils.py.  A character outside  *)
(* printable ASCII is written by its code point, "U+00E9".                 *)
(***************************************************************************)
RECURSIVE replace(_, _, _)
\* str.replace(src, dst) for a one-character src
replace(s, src, dst) ==
    IF s = << >> THEN << >>
    ELSE (IF Head(s) = src THEN dst ELSE << Head(s) >>) \o replace(Tail(s), src, dst)

replacements_dict ==
    << << "U+201C", << "\"" >> >>,
       << "U+201D", << "\"" >> >>,
       << "U+2018", << "'" >> >>,
       << "U+2019", << "'" >> >>,
       << "U+2013", << "-" >> >>,
       << "U+2014", << "-" >> >>,
       << "U+00A0", << " " >> >>,
       << "U+2026", << ".", ".", "." >> >>,
       << "U+FB01", << "f", "i" >> >>,
       << "U+FB02", << "f", "l" >> >>,
       << "U+0000", << >> >> >>

RECURSIVE ReplaceFrom(_, _)
ReplaceFrom(s, i) ==
    IF i > Len(replacements_dict) THEN s
    ELSE ReplaceFrom(replace(s, replacements_dict[i][1], replacements_dict[i][2]), i + 1)

common_char_replacements(s) == ReplaceFrom(s, 1)

\* the characters of the model outside ASCII, and those of category M
NonAscii ==
    { "U+201C", "U+201D", "U+2018", "U+2019", "U+2013", "U+2014", "U+00A0",
      "U+2026", "U+FB01", "U+FB02", "U+00E9", "U+0301", "U+00DF", "U+4E2D" }

CombiningMarks == { "U+0301" }

\* canonical decomposition of one character (unicodedata.normalize("NFD", c))
nfd_char(c) == IF c = "U+00E9" THEN << "e", "U+0301" >> ELSE << c >>

RECURSIVE NFD(_)
NFD(s) == IF s = << >> THEN << >> ELSE nfd_char(Head(s)) \o NFD(Tail(s))

RECURSIVE NFC_composed(_)
\* canonical composition of a decomposed string
NFC_composed(s) ==
    IF s = << >> THEN << >>
    ELSE IF Len(s) >= 2 /\ s[1] = "e" /\ s[2] = "U+0301"
         THEN << "U+00E9" >> \o NFC_composed(Tail(Tail(s)))
         ELSE << Head(s) >> \o NFC_composed(Tail(s))

NFC(s) == NFC_composed(NFD(s))

RECURSIVE drop_marks(_)
drop_marks(s) ==
    IF s = << >> THEN << >>
    ELSE (IF Head(s) \in CombiningMarks THEN << >> ELSE << Head(s) >>) \o drop_marks(Tail(s))

\* unidecode's transliteration of one character
unidecode_char(c) ==
    CASE c \in { "U+201C", "U+201D" } -> << "\"" >>
      [] c \in { "U+2018", "U+2019" } -> << "'" >>
      [] c = "U+2013" -> << "-" >>
      [] c = "U+2014" -> << "-", "-" >>
      [] c = "U+00A0" -> << " " >>
      [] c = "U+2026" -> << ".", ".", "." >>
      [] c = "U+FB01" -> << "f", "i" >>
      [] c = "U+FB02" -> << "f", "l" >>
      [] c = "U+00E9" -> << "e" >>
      [] c = "U+00DF" -> << "s", "s" >>
      [] c = "U+4E2D" -> << "Z", "h", "o", "n", "g", " " >>
      [] c = "U+0301" -> << >>
      [] OTHER -> << c >>

RECURSIVE unidecode(_)
unidecode(s) == IF s = << >> THEN << >> ELSE unidecode_char(Head(s)) \o unidecode(Tail(s))

RECURSIVE ascii_ignore(_)
\* s.encode("ascii", errors="ignore").decode("ascii")
ascii_ignore(s) ==
    IF s = << >> THEN << >>
    ELSE (IF Head(s) \in NonAscii THEN << >> ELSE << Head(s) >>) \o ascii_ignore(Tail(s))

strip_diacritics(s, unidecode_available) ==
    LET cleaned == NFC(drop_marks(NFD(s)))
    IN  IF unidecode_available THEN unidecode(cleaned) ELSE ascii_ignore(cleaned)

normalize_unicode(s) == NFC(s)

\* the characters str.split() treats as white space
Whitespace == { " ", "\n", "\t", "U+00A0" }

RECURSIVE split(_, _)
\* str.split(): the maximal runs of non-whitespace characters; w is the word
\* being read
split(s, w) ==
    IF s = << >> THEN (IF w = << >> THEN << >> ELSE << w >>)
    ELSE IF Head(s) \in Whitespace
         THEN (IF w = << >> THEN << >> ELSE << w >>) \o split(Tail(s), << >>)
         ELSE split(Tail(s), Append(w, Head(s)))

RECURSIVE join(_, _)
join(sep, words) ==
    IF words = << >> THEN << >>
    ELSE IF Len(words) = 1 THEN words[1]
    ELSE words[1] \o sep \o join(sep, Tail(words))

normalize_whitespace(s) == join(<< " " >>, split(s, << >>))

\* str.strip() leaves nothing
IsBlank(s) == \A i \in DOMAIN s : s[i] \in Whitespace

\* the chain with the diacritics stripped before the typographic characters
\* are replaced
normalization_chain_diacritics_first(s, unidecode_available) ==
    normalize_whitespace(
        normalize_unicode(
            common_char_replacements(strip_diacritics(s, unidecode_available))))

\* the chain with the white space collapsed before the diacritics are stripped
normalization_chain_whitespace_first(s, unidecode_available) ==
    normalize_unicode(
        strip_diacritics(normalize_whitespace(common_char_replacements(s)),
                         unidecode_available))

\* app.py:65-72
normalization_chain(s, unidecode_available) ==
    normalize_whitespace(
        normalize_unicode(
            strip_diacritics(common_char_replacements(s), unidecode_available)))

(***************************************************************************)
(* SpecExtract: extract_and_normalize_text(file_path) of app.py.  The      *)
(* extractor that is called either returns a text or raises.               *)
(***************************************************************************)
TextChars == { "a", " ", "U+00E9", "U+2014", "U+2026", "U+0000" }

Texts == SeqsUpTo(TextChars, MaxTextLen)

\* 'café', an em dash, curly-quoted 'hello' and an ellipsis
ScenarioText ==
    << "c", "a", "f", "U+00E9", " ", "U+2014", " ",
       "U+201C", "h", "e", "l", "l", "o", "U+201D", "U+2026" >>

\* what an extractor can return
ExtractedTexts == Texts \cup { ScenarioText }

ExtractorErrors == { "FileNotFoundError", "ValueError", "RuntimeError" }

TikaErrors == { "FileNotFoundError", "TikaUnsupportedError", "TikaNoContentError",
                "HTTPStatusError" }

DeclaredExtensions ==
    UNION { { extractors_list[i].file_extensions[j] :
                j \in DOMAIN extractors_list[i].file_extensions } :
            i \in DOMAIN extractors_list }

UploadNames ==
    { << "a", "." >> \o e : e \in DeclaredExtensions }
        \cup { << "a" >>, << "a", ".", "o", "d", "t" >>, << "a", ".", "z", "i", "p" >>,
               << "a", ".", "P", "D", "F" >>, << "a", ".", "b", ".", "T", "x", "t" >>,
               << ".", "p", "d", "f" >> }

InitExtract ==
    /\ pc = "select"
    /\ file_path \in UploadNames
    /\ extractors = extractors_list
    /\ extractor = None
    /\ text = None
    /\ calls = << >>
    /\ has_unidecode \in BOOLEAN
    /\ outcome = None
    /\ IdlePdf
    /\ IdleRest

\* app.py:62
SelectExtractor ==
    /\ pc = "select"
    /\ extractor' = get_extractor_for_file(file_path, extractors)
    /\ pc' = "extract"
    /\ UNCHANGED << file_path, extractors, text, calls, has_unidecode, outcome, pdfVars >>

\* app.py:63, `extractor(file_path)`: no handler surrounds the call, an
\* exception of the specialised extractor leaves extract_and_normalize_text
CallExtractor ==
    /\ pc = "extract"
    /\ extractor # 0
    /\ \/ \E t \in ExtractedTexts :
            /\ calls' = Append(calls, [cls |-> extractors[extractor].cls, raised |-> None])
            /\ text' = t
            /\ pc' = "normalize"
            /\ UNCHANGED outcome
       \/ \E e \in ExtractorErrors :
            /\ calls' = Append(calls, [cls |-> extractors[extractor].cls, raised |-> e])
            /\ outcome' = [kind |-> "raise", value |-> e]
            /\ pc' = "done"
            /\ UNCHANGED text
    /\ UNCHANGED << dispatchVars, has_unidecode, pdfVars >>

\* app.py:63, `tika_extractor(file_path)`: only when no extractor matched
CallTika ==
    /\ pc = "extract"
    /\ extractor = 0
    /\ \/ \E t \in ExtractedTexts :
            /\ calls' = Append(calls, [cls |-> tika_extractor, raised |-> None])
            /\ text' = t
            /\ pc' = "normalize"
            /\ UNCHANGED outcome
       \/ \E e \in TikaErrors :
            /\ calls' = Append(calls, [cls |-> tika_extractor, raised |-> e])
            /\ outcome' = [kind |-> "raise", value |-> e]
            /\ pc' = "done"
            /\ UNCHANGED text
    /\ UNCHANGED << dispatchVars, has_unidecode, pdfVars >>

\* app.py:65-72
Normalize ==
    /\ pc = "normalize"
    /\ text' = IF text # << >> THEN normalization_chain(text, has_unidecode) ELSE text
    /\ outcome' = [kind |-> "return", value |-> text']
    /\ pc' = "done"
    /\ UNCHANGED << dispatchVars, calls, has_unidecode, pdfVars >>

NextExtract == SelectExtractor \/ CallExtractor \/ CallTika \/ Normalize

SpecExtract == InitExtract /\ [][NextExtract]_vars

(***************************************************************************)
(* C2.  In extract_and_normalize_text the Tika fallback is invoked when no *)
(* specialised extractor matches and also when the matched specialised     *)
(* extractor raises: the call never ends with the specialised extractor's  *)
(* exception without the fallback having been tried.                       *)
(***************************************************************************)
TikaTried == \E i \in DOMAIN calls : calls[i].cls = tika_extractor

SpecializedRaised ==
    \E i \in DOMAIN calls : calls[i].cls # tika_extractor /\ calls[i].raised # None

C2_FallbackWhenSpecializedFails ==
    pc = "done" =>
        /\ extractor = 0 => TikaTried
        /\ SpecializedRaised => TikaTried

(***************************************************************************)
(* PDFFile (pdf_extraction.py:26-188).  A file on disk is a record: what   *)
(* the file system says (exists, is_file), what fitz says on opening it    *)
(* (is_pdf, is_encrypted), its size in bytes and its pages; a page has the *)
(* length of its text layer and its rectangle <<width, height>> in points. *)
(* Lengths in inches are held in half inches, so that 8.5in is exact.      *)
(***************************************************************************)
PointsPerUnit == 72 \div 2

UnitsPerInch == 72 \div PointsPerUnit

long_edge_thresh == 24

area_thresh == 800

_is_large_format_page_both(w, h) ==
    LET long_edge == Max(w, h)
        area == w * h
    IN  /\ long_edge >= long_edge_thresh * UnitsPerInch
        /\ area >= area_thresh * UnitsPerInch * UnitsPerInch

\* pdf_extraction.py:123-125, w and h in half inches
_is_large_format_page(w, h) ==
    LET long_edge == Max(w, h)
        area == w * h
    IN  \/ long_edge >= long_edge_thresh * UnitsPerInch
        \/ area >= area_thresh * UnitsPerInch * UnitsPerInch

\* pdf_extraction.py:142, pt / 72.0 (exact for the rectangles of the model)
pt_to_in(pt) == pt \div PointsPerUnit

\* property_cache = {}: a function from the keys present to their values
EmptyCache == << >>

\* a cache that never reports a key as present
Cached_never(h, key) == FALSE

\* `pdf` before a PDFFile is bound to it
NoHandle == [unbound |-> TRUE]

Cached(h, key) == key \in DOMAIN h.property_cache

PDFFile_init_unchecked(f) ==
    IF ~ f.exists THEN [raised |-> "FileNotFoundError", handle |-> NoHandle]
    ELSE IF ~ f.is_file THEN [raised |-> "FileNotFoundError", handle |-> NoHandle]
    ELSE [raised |-> None,
          handle |-> [page_count |-> Len(f.pages), is_encrypted |-> f.is_encrypted,
                      size |-> f.size, property_cache |-> EmptyCache]]

\* PDFFile.__init__: the exception it raises, or the handle it constructs
PDFFile_init(f) ==
    IF ~ f.exists THEN [raised |-> "FileNotFoundError", handle |-> NoHandle]
    ELSE IF ~ f.is_file THEN [raised |-> "FileNotFoundError", handle |-> NoHandle]
    ELSE IF ~ f.is_pdf THEN [raised |-> "ValueError", handle |-> NoHandle]
    ELSE [raised |-> None,
          handle |-> [page_count |-> Len(f.pages), is_encrypted |-> f.is_encrypted,
                      size |-> f.size, property_cache |-> EmptyCache]]

\* pdf_extraction.py:159
page_dims(f) ==
    [i \in DOMAIN f.pages |->
        << pt_to_in(f.pages[i].rect[1]), pt_to_in(f.pages[i].rect[2]) >>]

\* PDFFile.pages_dims: the handle after the read (its cache filled)
pages_dims_handle(h, f) ==
    IF Cached(h, "pages_dims") THEN h
    ELSE [h EXCEPT !.property_cache = @ @@ ("pages_dims" :> page_dims(f))]

pages_dims(h, f) == pages_dims_handle(h, f).property_cache.pages_dims

\* pdf_extraction.py:179-186: True at the first large page, False when none
any_large(dims) ==
    \E i \in DOMAIN dims : _is_large_format_page(dims[i][1], dims[i][2])

\* PDFFile.has_large_format: the handle after the read (its cache filled)
has_large_format_handle(h, f) ==
    IF Cached(h, "has_large_format") THEN h
    ELSE LET h1 == pages_dims_handle(h, f)
         IN  [h1 EXCEPT !.property_cache =
                            @ @@ ("has_large_format" :> any_large(pages_dims(h, f)))]

has_large_format(h, f) == has_large_format_handle(h, f).property_cache.has_large_format

(***************************************************************************)
(* The files of the model.                                                 *)
(***************************************************************************)
max_stream_size == 100 * 1024 * 1024

ocr_needed_length_threshold == 100

Letter == << 612, 792 >>

PageRects ==
    { Letter, << 720, 720 >>, << 1800, 144 >>, << 144, 1728 >>, << 1692, 1692 >>,
      << 2448, 2448 >> }

PageTextLens == { 0, 1, 99 }

FileSizes == { 1, max_stream_size, max_stream_size + 1 }

PagesOf(lens, rects) ==
    SeqsUpTo({ [text_len |-> l, rect |-> r] : l \in lens, r \in rects }, MaxPages) \ { << >> }

NoFile ==
    [exists |-> FALSE, is_file |-> FALSE, is_pdf |-> FALSE, is_encrypted |-> FALSE,
     size |-> 0, pages |-> << >>]

Directory == [NoFile EXCEPT !.exists = TRUE]

\* the files with pages drawn from the given text lengths and rectangles, a
\* missing path and a directory
FilesOf(lens, rects) ==
    { NoFile, Directory }
        \cup { [exists |-> TRUE, is_file |-> TRUE, is_pdf |-> p, is_encrypted |-> e,
                size |-> z, pages |-> pp] :
                 p \in BOOLEAN, e \in BOOLEAN, z \in FileSizes, pp \in PagesOf(lens, rects) }

(***************************************************************************)
(* SpecPDFFile: a PDFFile is constructed for a path and its cached         *)
(* properties are read in any order.                                       *)
(***************************************************************************)
InitPDFFile ==
    /\ pc = "new"
    /\ pdf_file \in { f \in FilesOf({ 0 }, PageRects) :
                        f.size = 1 /\ (f.is_encrypted => f.is_pdf) }
    /\ pdf = NoHandle
    /\ outcome = None
    /\ computes = [pages_dims |-> 0, has_large_format |-> 0]
    /\ reads = << >>
    /\ file_path = None
    /\ extractors = None
    /\ extractor = None
    /\ IdleExtract
    /\ doc = None
    /\ extracted_text = None
    /\ exc = None
    /\ ocr_params = None
    /\ ocr_calls = << >>
    /\ get_text_calls = 0
    /\ temp_dirs = { }
    /\ direct_text = None
    /\ ocr_output = None
    /\ IdleRest

pdfFileFrame ==
    << file_path, extractors, extractor, extractVars, pdf_file, doc, extracted_text,
       exc, ocr_params, ocr_calls, get_text_calls, temp_dirs, direct_text, ocr_output,
       restVars >>

\* PDFFile(path)
Construct ==
    /\ pc = "new"
    /\ LET r == PDFFile_init(pdf_file)
       IN  /\ pdf' = r.handle
           /\ outcome' = IF r.raised # None
                         THEN [kind |-> "raise", value |-> r.raised]
                         ELSE [kind |-> "return", value |-> r.handle]
           /\ pc' = IF r.raised # None THEN "failed" ELSE "ready"
    /\ UNCHANGED << computes, reads, pdfFileFrame >>

\* pdf.pages_dims
ReadPagesDims ==
    /\ pc = "ready"
    /\ Len(reads) < MaxReads
    /\ pdf' = pages_dims_handle(pdf, pdf_file)
    /\ reads' = Append(reads, [prop |-> "pages_dims", value |-> pages_dims(pdf, pdf_file)])
    /\ computes' = IF Cached(pdf, "pages_dims") THEN computes
                   ELSE [computes EXCEPT !.pages_dims = @ + 1]
    /\ UNCHANGED << pc, outcome, pdfFileFrame >>

\* pdf.has_large_format
ReadHasLargeFormat ==
    /\ pc = "ready"
    /\ Len(reads) < MaxReads
    /\ pdf' = has_large_format_handle(pdf, pdf_file)
    /\ reads' = Append(reads, [prop |-> "has_large_format",
                               value |-> has_large_format(pdf, pdf_file)])
    /\ computes' =
         IF Cached(pdf, "has_large_format") THEN computes
         ELSE [computes EXCEPT
                 !.has_large_format = @ + 1,
                 !.pages_dims = IF Cached(pdf, "pages_dims") THEN @ ELSE @ + 1]
    /\ UNCHANGED << pc, outcome, pdfFileFrame >>

NextPDFFile == Construct \/ ReadPagesDims \/ ReadHasLargeFormat

SpecPDFFile == InitPDFFile /\ [][NextPDFFile]_vars

(***************************************************************************)
(* C7.  A page of w x h inches is flagged large-format exactly when        *)
(* max(w,h) >= 24 or w*h >= 800, so 10x10 is not flagged and 25x2 is, and  *)
(* has_large_format is true exactly when some page of the document is      *)
(* flagged.  The claim's side is stated on the page rectangles in points.  *)
(***************************************************************************)
FlaggedInPoints(rect) ==
    \/ rect[1] >= 24 * 72
    \/ rect[2] >= 24 * 72
    \/ rect[1] * rect[2] >= 800 * 72 * 72

C7_LargeFormatExactlyWhenSomePageFlagged ==
    \A i \in DOMAIN reads :
        reads[i].prop = "has_large_format" =>
            /\ reads[i].value =
                 (\E k \in DOMAIN pdf_file.pages : FlaggedInPoints(pdf_file.pages[k].rect))
            /\ pdf_file.pages = << [text_len |-> 0, rect |-> << 720, 720 >>] >>
                 => reads[i].value = FALSE
            /\ pdf_file.pages = << [text_len |-> 0, rect |-> << 1800, 144 >>] >>
                 => reads[i].value = TRUE

\* a 10x10in page followed by a 25x2in page: the document is large-format
C7_Witness ==
    /\ pc = "ready"
    /\ pdf_file.pages = << [text_len |-> 0, rect |-> << 720, 720 >>],
                           [text_len |-> 0, rect |-> << 1800, 144 >>] >>
    /\ \E i \in DOMAIN reads :
          reads[i].prop = "has_large_format" /\ reads[i].value = TRUE

EmptyText == [src |-> "empty", len |-> 0]

\* a spy that has not recorded anything yet
Unset == [unset |-> TRUE]

OcrTexts == { [src |-> "ocr", len |-> n] : n \in { 0, 120 } }

\* PDFTextExtractor.__init__: the two parameters _fitz_doc_text adapts
default_ocr_params == ("max_image_mpixels" :> 250) @@ ("tesseract_timeout" :> 300)

\* dict.get(key, None) under `not`: a missing key, None and 0 are all falsy
Falsy(params, key) == key \notin DOMAIN params \/ params[key] = 0

SetKey(params, key, value) == (key :> value) @@ params

\* extraction_utils.validate_file: the exception it raises, None when it returns
validate_file(f) == IF ~ f.exists \/ ~ f.is_file THEN "FileNotFoundError" ELSE None

RECURSIVE SumTextLen(_)
\* pdf_extraction.py:294-297: the length of the concatenated page texts
SumTextLen(pages) ==
    IF pages = << >> THEN 0 ELSE Head(pages).text_len + SumTextLen(Tail(pages))

NeedsOcr_only_when_empty(pdf_text) == pdf_text.len = 0

NeedsOcr_up_to_threshold(pdf_text) == pdf_text.len <= ocr_needed_length_threshold

\* pdf_extraction.py:299: the direct text is returned unless it is shorter
\* than the threshold
NeedsOcr(pdf_text) == ~ (pdf_text.len >= ocr_needed_length_threshold)

\* pdf_extraction.py:304-311: the parameters handed to extract_text_with_ocr
adaptive_ocr_params(params, h, f) ==
    LET p1 == IF Falsy(params, "tesseract_timeout")
              THEN SetKey(params, "tesseract_timeout", Min(300, h.page_count * 45))
              ELSE params
    IN  IF Falsy(p1, "max_image_mpixels")
        THEN SetKey(p1, "max_image_mpixels", IF has_large_format(h, f) THEN 1000 ELSE 300)
        ELSE p1

InTempCopy == "text_extractor_" \in temp_dirs

\* the files a call of the extractor can be handed
PdfCallFiles ==
    { f \in FilesOf(PageTextLens, { Letter, << 1800, 144 >> }) :
        f.is_encrypted => f.is_pdf }

InitPDF ==
    /\ pc = "call"
    /\ pdf_file \in PdfCallFiles
    /\ pdf = NoHandle
    /\ doc = None
    /\ extracted_text = EmptyText
    /\ exc = None
    /\ ocr_params = default_ocr_params
    /\ ocr_calls = << >>
    /\ get_text_calls = 0
    /\ temp_dirs = { }
    /\ direct_text = Unset
    /\ ocr_output = Unset
    /\ computes = None
    /\ reads = << >>
    /\ outcome = None
    /\ file_path = None
    /\ extractors = None
    /\ extractor = None
    /\ IdleExtract
    /\ IdleRest

pdfFrame == << dispatchVars, extractVars, pdf_file, ocr_params, computes, reads, restVars >>

\* pdf_extraction.py:336
ValidateFile ==
    /\ pc = "call"
    /\ LET e == validate_file(pdf_file)
       IN  /\ exc' = e
           /\ pc' = IF e # None THEN "except" ELSE "construct"
    /\ UNCHANGED << pdf, doc, extracted_text, ocr_calls, get_text_calls, temp_dirs,
                    direct_text, ocr_output, outcome, pdfFrame >>

\* pdf_extraction.py:339, pdf = PDFFile(validated)
ConstructPDFFile ==
    /\ pc = "construct"
    /\ LET r == PDFFile_init(pdf_file)
       IN  /\ pdf' = r.handle
           /\ exc' = r.raised
           /\ pc' = IF r.raised # None THEN "except" ELSE "check_encrypted"
    /\ UNCHANGED << doc, extracted_text, ocr_calls, get_text_calls, temp_dirs,
                    direct_text, ocr_output, outcome, pdfFrame >>

CheckEncrypted_skipped ==
    /\ pc = "check_encrypted"
    /\ pc' = "open"
    /\ UNCHANGED << exc, pdf, doc, extracted_text, ocr_calls, get_text_calls, temp_dirs,
                    direct_text, ocr_output, outcome, pdfFrame >>

\* pdf_extraction.py:344-346
CheckEncrypted ==
    /\ pc = "check_encrypted"
    /\ IF pdf.is_encrypted
       THEN exc' = "ValueError" /\ pc' = "except"
       ELSE exc' = exc /\ pc' = "open"
    /\ UNCHANGED << pdf, doc, extracted_text, ocr_calls, get_text_calls, temp_dirs,
                    direct_text, ocr_output, outcome, pdfFrame >>

\* pdf_extraction.py:349-352, the in-memory path
OpenInMemory ==
    /\ pc = "open"
    /\ pdf.size <= max_stream_size
    /\ doc' = "open"
    /\ pc' = "direct"
    /\ UNCHANGED << pdf, exc, extracted_text, ocr_calls, get_text_calls, temp_dirs,
                    direct_text, ocr_output, outcome, pdfFrame >>

\* pdf_extraction.py:356-361, the temp-file path
OpenTempCopy ==
    /\ pc = "open"
    /\ ~ (pdf.size <= max_stream_size)
    /\ temp_dirs' = temp_dirs \cup { "text_extractor_" }
    /\ doc' = "open"
    /\ pc' = "direct"
    /\ UNCHANGED << pdf, exc, extracted_text, ocr_calls, get_text_calls,
                    direct_text, ocr_output, outcome, pdfFrame >>

\* pdf_extraction.py:294-301: the page loop, which a failing page.get_text()
\* leaves with an exception, and the decision on its result
DirectText ==
    /\ pc = "direct"
    /\ \/ \E k \in 1..pdf.page_count :
            /\ get_text_calls' = get_text_calls + k
            /\ exc' = "RuntimeError"
            /\ pc' = "unwind"
            /\ UNCHANGED << direct_text, extracted_text >>
       \/ LET pdf_text == [src |-> "direct", len |-> SumTextLen(pdf_file.pages)]
          IN  /\ get_text_calls' = get_text_calls + pdf.page_count
              /\ direct_text' = pdf_text
              /\ IF NeedsOcr(pdf_text)
                 THEN pc' = "escalate" /\ UNCHANGED extracted_text
                 ELSE pc' = "close" /\ extracted_text' = pdf_text
              /\ UNCHANGED exc
    /\ UNCHANGED << pdf, doc, ocr_calls, temp_dirs, ocr_output, outcome, pdfFrame >>

\* an escalation that works on self.ocr_params itself, without the copies
EscalateToOcr_in_place ==
    /\ pc = "escalate"
    /\ ocr_calls' = Append(ocr_calls, adaptive_ocr_params(ocr_params, pdf, pdf_file))
    /\ pdf' = IF ~ Falsy(ocr_params, "tesseract_timeout") /\ ~ Falsy(ocr_params, "max_image_mpixels")
              THEN pdf
              ELSE IF Falsy(ocr_params, "max_image_mpixels")
                   THEN has_large_format_handle(pdf, pdf_file)
                   ELSE pdf
    /\ IF ~ pdf_file.exists
       THEN exc' = "FileNotFoundError" /\ pc' = "unwind" /\ UNCHANGED temp_dirs
       ELSE /\ temp_dirs' = temp_dirs \cup { "ocr_" }
            /\ pc' = "ocr"
            /\ UNCHANGED exc
    /\ ocr_params' = SetKey(SetKey(adaptive_ocr_params(ocr_params, pdf, pdf_file),
                                   "input_file", 1), "output_file", 1)
    /\ UNCHANGED << doc, extracted_text, get_text_calls, direct_text, ocr_output,
                    outcome, dispatchVars, extractVars, pdf_file, computes, reads,
                    restVars >>

\* pdf_extraction.py:303-313 and 257-262: the parameters are adapted on a copy
\* and extract_text_with_ocr is entered, which creates its output directory
EscalateToOcr ==
    /\ pc = "escalate"
    /\ ocr_calls' = Append(ocr_calls, adaptive_ocr_params(ocr_params, pdf, pdf_file))
    /\ pdf' = IF ~ Falsy(ocr_params, "tesseract_timeout") /\ ~ Falsy(ocr_params, "max_image_mpixels")
              THEN pdf
              ELSE IF Falsy(ocr_params, "max_image_mpixels")
                   THEN has_large_format_handle(pdf, pdf_file)
                   ELSE pdf
    /\ IF ~ pdf_file.exists
       THEN exc' = "FileNotFoundError" /\ pc' = "unwind" /\ UNCHANGED temp_dirs
       ELSE /\ temp_dirs' = temp_dirs \cup { "ocr_" }
            /\ pc' = "ocr"
            /\ UNCHANGED exc
    /\ UNCHANGED << doc, extracted_text, get_text_calls, direct_text, ocr_output,
                    outcome, pdfFrame >>

\* pdf_extraction.py:262-274: ocrmypdf runs, the text of its output is read,
\* and the output directory is removed on the way out, also when it raised
RunOcr ==
    /\ pc = "ocr"
    /\ \/ /\ exc' = "OCRError"
          /\ pc' = "unwind"
          /\ UNCHANGED << ocr_output, extracted_text >>
       \/ \E t \in OcrTexts :
            /\ ocr_output' = t
            /\ extracted_text' = t
            /\ pc' = "close"
            /\ UNCHANGED exc
    /\ temp_dirs' = temp_dirs \ { "ocr_" }
    /\ UNCHANGED << pdf, doc, ocr_calls, get_text_calls, direct_text, outcome, pdfFrame >>

\* pdf_extraction.py:354 and 363, doc.close()
CloseDoc ==
    /\ pc = "close"
    /\ doc' = "closed"
    /\ pc' = IF InTempCopy THEN "leave_temp" ELSE "finally"
    /\ UNCHANGED << pdf, exc, extracted_text, ocr_calls, get_text_calls, temp_dirs,
                    direct_text, ocr_output, outcome, pdfFrame >>

\* pdf_extraction.py:358, the end of the `with tempfile.TemporaryDirectory`
LeaveTempDir ==
    /\ pc = "leave_temp"
    /\ temp_dirs' = temp_dirs \ { "text_extractor_" }
    /\ pc' = "finally"
    /\ UNCHANGED << pdf, doc, exc, extracted_text, ocr_calls, get_text_calls,
                    direct_text, ocr_output, outcome, pdfFrame >>

\* the unwinding of an exception that leaves the directory of the copy behind
Unwind_keeps_dir ==
    /\ pc = "unwind"
    /\ temp_dirs' = temp_dirs
    /\ pc' = "except"
    /\ UNCHANGED << pdf, doc, exc, extracted_text, ocr_calls, get_text_calls,
                    direct_text, ocr_output, outcome, pdfFrame >>

\* an exception leaves _fitz_doc_text: on the temp-file path it first leaves
\* the `with` block, which removes the directory, then reaches the handler
Unwind ==
    /\ pc = "unwind"
    /\ temp_dirs' = temp_dirs \ { "text_extractor_" }
    /\ pc' = "except"
    /\ UNCHANGED << pdf, doc, exc, extracted_text, ocr_calls, get_text_calls,
                    direct_text, ocr_output, outcome, pdfFrame >>

\* pdf_extraction.py:365-367: the handler formats pdf.name before it
\* re-raises; with `pdf` unbound that raises UnboundLocalError instead
ExceptHandler ==
    /\ pc = "except"
    /\ exc' = IF pdf = NoHandle THEN "UnboundLocalError" ELSE exc
    /\ pc' = "finally"
    /\ UNCHANGED << pdf, doc, extracted_text, ocr_calls, get_text_calls, temp_dirs,
                    direct_text, ocr_output, outcome, pdfFrame >>

\* a `finally` clause that leaves the handle as it finds it
Finally_no_close ==
    /\ pc = "finally"
    /\ doc' = doc
    /\ outcome' = IF exc # None
                  THEN [kind |-> "raise", value |-> exc]
                  ELSE [kind |-> "return", value |-> extracted_text]
    /\ pc' = "done"
    /\ UNCHANGED << pdf, exc, extracted_text, ocr_calls, get_text_calls, temp_dirs,
                    direct_text, ocr_output, pdfFrame >>

\* pdf_extraction.py:369-378
Finally ==
    /\ pc = "finally"
    /\ doc' = IF doc # None /\ doc # "closed" THEN "closed" ELSE doc
    /\ outcome' = IF exc # None
                  THEN [kind |-> "raise", value |-> exc]
                  ELSE [kind |-> "return", value |-> extracted_text]
    /\ pc' = "done"
    /\ UNCHANGED << pdf, exc, extracted_text, ocr_calls, get_text_calls, temp_dirs,
                    direct_text, ocr_output, pdfFrame >>

\* the files of the calls that follow one another on the shared instance
SharedCallFiles == { f \in PdfCallFiles : Len(f.pages) <= 1 }

\* app.py:27: pdf_extractor is one instance for the life of the process; when
\* a call has ended the next one starts on it, with the locals of __call__
\* fresh and the attributes of the instance as the last call left them
NextCall ==
    /\ pc = "done"
    /\ pc' = "call"
    /\ pdf_file' \in SharedCallFiles
    /\ pdf' = NoHandle
    /\ doc' = None
    /\ extracted_text' = EmptyText
    /\ exc' = None
    /\ ocr_calls' = << >>
    /\ get_text_calls' = 0
    /\ direct_text' = Unset
    /\ ocr_output' = Unset
    /\ outcome' = None
    /\ UNCHANGED << temp_dirs, ocr_params, dispatchVars, extractVars, computes, reads,
                    restVars >>

NextPDF ==
    \/ ValidateFile \/ ConstructPDFFile \/ CheckEncrypted
    \/ OpenInMemory \/ OpenTempCopy \/ DirectText
    \/ EscalateToOcr \/ RunOcr
    \/ CloseDoc \/ LeaveTempDir \/ Unwind \/ ExceptHandler \/ Finally

SpecPDF == InitPDF /\ [][NextPDF]_vars

(***************************************************************************)
(* SpecPDFShared: calls of PDFTextExtractor.__call__ that follow one       *)
(* another on the one instance the application builds.                     *)
(***************************************************************************)
InitPDFShared == InitPDF /\ pdf_file \in SharedCallFiles

NextPDFShared == NextPDF \/ NextCall

SpecPDFShared == InitPDFShared /\ [][NextPDFShared]_vars

(***************************************************************************)
(* The claims about one PDFTextExtractor call, stated on the file given to *)
(* it and on what the spies and the caller see.                            *)
(***************************************************************************)
ValidPdf == pdf_file.exists /\ pdf_file.is_file /\ pdf_file.is_pdf

DirectLen == SumTextLen(pdf_file.pages)

C4_OcrExactlyOnceWhenDirectTextShort ==
    /\ Len(ocr_calls) <= 1
    /\ (pc = "done" /\ ValidPdf /\ ~ pdf_file.is_encrypted
          /\ direct_text # Unset /\ DirectLen < 100) =>
            /\ Len(ocr_calls) = 1
            /\ outcome.kind = "return" =>
                  /\ ocr_output # Unset
                  /\ outcome.value = ocr_output

\* the temp-file path: 99 characters of direct text, OCR ran once and its
\* text was returned
C4_Witness ==
    /\ pc = "done"
    /\ ValidPdf
    /\ pdf_file.size > 100 * 1024 * 1024
    /\ DirectLen = 99
    /\ Len(ocr_calls) = 1
    /\ outcome = [kind |-> "return", value |-> [src |-> "ocr", len |-> 120]]

(***************************************************************************)
(* C5.  Whenever the extractor as constructed by PDFTextExtractor()        *)
(* escalates to OCR, the tesseract_timeout passed to the OCR entry point   *)
(* is min(300, page_count * 45), 45 for a one-page PDF.                    *)
(***************************************************************************)
C5_TimeoutAdaptsToPageCount ==
    \A i \in DOMAIN ocr_calls :
        ocr_calls[i]["tesseract_timeout"] = Min(300, Len(pdf_file.pages) * 45)

(***************************************************************************)
(* C6.  Whenever the extractor escalates to OCR, the max_image_mpixels     *)
(* passed to the OCR entry point is 1000 if at least one page is           *)
(* large-format and 300 otherwise.                                         *)
(***************************************************************************)
C6_MegapixelsAdaptToLargeFormat ==
    \A i \in DOMAIN ocr_calls :
        ocr_calls[i]["max_image_mpixels"] =
            IF \E k \in DOMAIN pdf_file.pages : FlaggedInPoints(pdf_file.pages[k].rect)
            THEN 1000
            ELSE 300

(***************************************************************************)
(* C8.  A call on an encrypted PDF ends with ValueError delivered to the   *)
(* caller, and neither direct page-text extraction nor the OCR entry point *)
(* is ever invoked on the way.                                             *)
(***************************************************************************)
C8_EncryptedPdfRejected ==
    (ValidPdf /\ pdf_file.is_encrypted) =>
        /\ get_text_calls = 0
        /\ ocr_calls = << >>
        /\ pc = "done" => outcome = [kind |-> "raise", value |-> "ValueError"]

\* the call on an encrypted PDF has ended
C8_Witness ==
    /\ pc = "done"
    /\ ValidPdf
    /\ pdf_file.is_encrypted
    /\ pdf # NoHandle
    /\ outcome = [kind |-> "raise", value |-> "ValueError"]

(***************************************************************************)
(* C9.  A call on a path that does not exist or is no regular file fails   *)
(* with FileNotFoundError as the exception the caller receives, and a call *)
(* on an existing file that is no valid PDF fails with ValueError; the     *)
(* error handler does not replace either by another exception type.        *)
(***************************************************************************)
C9_ValidationErrorsReachCaller ==
    pc = "done" =>
        /\ (~ pdf_file.exists \/ ~ pdf_file.is_file) =>
              outcome = [kind |-> "raise", value |-> "FileNotFoundError"]
        /\ (pdf_file.exists /\ pdf_file.is_file /\ ~ pdf_file.is_pdf) =>
              outcome = [kind |-> "raise", value |-> "ValueError"]

\* ---------------------------------------------------------------------------
\* C11: once a PDFTextExtractor call has finished, by returning or by raising,
\* the document handle it opened is closed.  The handles of PDFFile.__init__,
\* pages_dims and extract_text_with_ocr are bound by `with` statements that
\* lie inside one step, so `doc` is the only handle that can outlive a step.
C11_HandlesClosedAtExit ==
    pc = "done" => doc \in { None, "closed" }

\* a call whose OCR raised while `doc` was open, and which has finished
C11_Witness ==
    /\ pc = "done"
    /\ outcome.kind = "raise"
    /\ exc = "OCRError"
    /\ doc = "closed"

Event(call, result) == [call |-> call, result |-> result]

Called(call) == \E i \in 1..Len(events) : events[i].call = call

Count(call) == Cardinality({ i \in 1..Len(events) : events[i].call = call })

Position(call) == CHOOSE i \in 1..Len(events) : events[i].call = call

Failed(call) == \E i \in 1..Len(events) : events[i].call = call /\ events[i].result # "ok"

WordExts == { "docx", "doc", "rtf", "odt" }

PresentationExts == { "pptx", "ppt", "pps", "odp" }

OfficeFiles == { NoFile, [NoFile EXCEPT !.exists = TRUE, !.is_file = TRUE] }

\* a configured executable path, or None
ToolPaths(tool) == { None, tool }

InitOffice ==
    /\ pc = "call"
    /\ \E cls \in { "WordFileTextExtractor", "PresentationTextExtractor" } :
          env \in [ cls          : { cls },
                    file         : OfficeFiles,
                    ext          : IF cls = "WordFileTextExtractor"
                                   THEN WordExts ELSE PresentationExts,
                    use_com      : BOOLEAN,
                    soffice_path : IF cls = "WordFileTextExtractor"
                                   THEN { None } ELSE ToolPaths("soffice"),
                    pandoc_path  : ToolPaths("pandoc") ]
    /\ events = << >>
    /\ converted = None
    /\ text = None
    /\ outcome = None
    /\ calls = << >>
    /\ has_unidecode = None
    /\ file_path = None
    /\ extractors = None
    /\ extractor = None
    /\ handler = None
    /\ error = None
    /\ normalized = << >>
    /\ mime = None
    /\ IdlePdf

officeFrame ==
    << dispatchVars, calls, has_unidecode, pdf_file, pdf, doc, extracted_text,
       ocr_params, ocr_calls, get_text_calls, direct_text, ocr_output, computes,
       reads, env, handler, error, normalized, mime >>

IsWord == env.cls = "WordFileTextExtractor"

IsPresentation == env.cls = "PresentationTextExtractor"

Raise(e) == [kind |-> "raise", value |-> e]

Return(v) == [kind |-> "return", value |-> v]

\* office_doc_extraction.py:395-424
Presentation_call ==
    /\ pc = "call"
    /\ IsPresentation
    /\ LET e == validate_file(env.file)
       IN  IF e # None
           THEN /\ outcome' = Raise(e)
                /\ pc' = "done"
           ELSE /\ outcome' = outcome
                /\ pc' = IF env.ext \in { "pptx", "pptm", "ppsx" }
                         THEN "_extract_pptx" ELSE "try_com"
    /\ UNCHANGED << events, converted, text, temp_dirs, exc, officeFrame >>

\* office_doc_extraction.py:429-470: python-pptx parses the file or raises
_extract_pptx ==
    /\ pc = "_extract_pptx"
    /\ \/ /\ text' = "text"
          /\ outcome' = Return("text")
       \/ /\ text' = text
          /\ outcome' = Raise("PackageNotFoundError")
    /\ pc' = "done"
    /\ UNCHANGED << events, converted, temp_dirs, exc, officeFrame >>

\* office_doc_extraction.py:553-558, the guard of the first stage
ConvertTryCom ==
    /\ pc = "try_com"
    /\ IsPresentation
    /\ pc' = IF env.use_com /\ env.ext \in { "ppt", "pps" }
             THEN "CoInitialize" ELSE "try_soffice"
    /\ UNCHANGED << events, converted, text, temp_dirs, exc, outcome, officeFrame >>

\* extraction_utils.py:215
CoInitialize ==
    /\ pc = "CoInitialize"
    /\ events' = Append(events, Event("CoInitialize", "ok"))
    /\ pc' = "DispatchEx"
    /\ UNCHANGED << converted, text, temp_dirs, exc, outcome, officeFrame >>

\* extraction_utils.py:216-217, before the `try`: when the application
\* object cannot be created the exception leaves com_app at once
DispatchEx ==
    /\ pc = "DispatchEx"
    /\ \/ /\ events' = Append(events, Event("DispatchEx", "ok"))
          /\ exc' = exc
          /\ pc' = "yield"
       \/ /\ events' = Append(events, Event("DispatchEx", "com_error"))
          /\ exc' = "com_error"
          /\ pc' = "com_exit"
    /\ UNCHANGED << converted, text, temp_dirs, outcome, officeFrame >>

\* office_doc_extraction.py:581-586, the body of the `with com_app`
PptComBody ==
    /\ pc = "yield"
    /\ IsPresentation
    /\ temp_dirs' = temp_dirs \cup { "ppt_com_tempdir" }
    /\ \/ /\ converted' = "pptx"
          /\ exc' = exc
       \/ /\ converted' = converted
          /\ exc' = "com_error"
    /\ pc' = "Quit"
    /\ UNCHANGED << events, text, outcome, officeFrame >>

\* office_doc_extraction.py:154-166: Documents.Open, then the
\* TemporaryDirectory is entered
WordComOpen ==
    /\ pc = "yield"
    /\ IsWord
    /\ \/ /\ temp_dirs' = temp_dirs \cup { "word_com_td" }
          /\ exc' = exc
          /\ pc' = "SaveAs2"
       \/ /\ temp_dirs' = temp_dirs
          /\ exc' = "com_error"
          /\ pc' = "Quit"
    /\ UNCHANGED << events, converted, text, outcome, officeFrame >>

\* office_doc_extraction.py:167-171: the export is written and read back,
\* or a call raises; leaving the TemporaryDirectory removes it either way
WordComSaveAs ==
    /\ pc = "SaveAs2"
    /\ \/ /\ text' = "text"
          /\ exc' = exc
       \/ /\ text' = text
          /\ exc' = "com_error"
    /\ temp_dirs' = temp_dirs \ { "word_com_td" }
    /\ pc' = "Quit"
    /\ UNCHANGED << events, converted, outcome, officeFrame >>

\* extraction_utils.py:221: when Quit raises, its exception replaces whatever
\* the body produced and line 222 is not reached
Quit ==
    /\ pc = "Quit"
    /\ \/ /\ events' = Append(events, Event("Quit", "ok"))
          /\ exc' = exc
          /\ pc' = "CoUninitialize"
       \/ /\ events' = Append(events, Event("Quit", "com_error"))
          /\ exc' = "com_error"
          /\ pc' = "com_exit"
    /\ UNCHANGED << converted, text, temp_dirs, outcome, officeFrame >>

\* extraction_utils.py:222
CoUninitialize ==
    /\ pc = "CoUninitialize"
    /\ events' = Append(events, Event("CoUninitialize", "ok"))
    /\ pc' = "com_exit"
    /\ UNCHANGED << converted, text, temp_dirs, exc, outcome, officeFrame >>

\* office_doc_extraction.py:555-558: _ppt_com_to_pptx returned or raised
PptComExit ==
    /\ pc = "com_exit"
    /\ IsPresentation
    /\ IF exc = None
       THEN /\ events' = Append(events, Event("_ppt_com_to_pptx", "ok"))
            /\ pc' = "converted"
       ELSE /\ events' = Append(events, Event("_ppt_com_to_pptx", exc))
            /\ pc' = "try_soffice"
    /\ exc' = None
    /\ UNCHANGED << converted, text, temp_dirs, outcome, officeFrame >>

\* office_doc_extraction.py:561-565 with _libreoffice_convert (608-613): the
\* output directory is made, then soffice runs and the output is looked up
ConvertTrySoffice ==
    /\ pc = "try_soffice"
    /\ IF env.soffice_path # None
       THEN /\ temp_dirs' = temp_dirs \cup { "soffice_outdir" }
            /\ \/ /\ events' = Append(events, Event("_libreoffice_convert", "ok"))
                  /\ converted' = "pptx"
                  /\ pc' = "converted"
               \/ /\ \E e \in { "CalledProcessError", "StopIteration" } :
                        events' = Append(events, Event("_libreoffice_convert", e))
                  /\ converted' = converted
                  /\ pc' = "try_pandoc"
       ELSE /\ pc' = "try_pandoc"
            /\ UNCHANGED << events, converted, temp_dirs >>
    /\ UNCHANGED << text, exc, outcome, officeFrame >>

\* extraction_utils.py:166-192: the output directory is made, then pandoc
\* runs; nothing removes the directory
run_pandoc(dirs) == dirs \cup { "pandoc_out" }

\* a last stage whose own failure is let through to the caller
ConvertTryPandoc_propagates ==
    /\ pc = "try_pandoc"
    /\ IsPresentation
    /\ IF env.pandoc_path # None
       THEN /\ temp_dirs' = run_pandoc(temp_dirs)
            /\ \/ /\ events' = Append(events, Event("_pandoc_to_txt", "ok"))
                  /\ converted' = "txt"
                  /\ outcome' = outcome
                  /\ pc' = "converted"
               \/ /\ events' = Append(events, Event("_pandoc_to_txt", "CalledProcessError"))
                  /\ converted' = converted
                  /\ outcome' = Raise("CalledProcessError")
                  /\ pc' = "done"
       ELSE /\ outcome' = Raise("RuntimeError")
            /\ pc' = "done"
            /\ UNCHANGED << events, converted, temp_dirs >>
    /\ UNCHANGED << text, exc, officeFrame >>

\* office_doc_extraction.py:568-574 with _pandoc_to_txt (615-634); when the
\* last stage has failed or is not configured, line 574 raises
ConvertTryPandoc ==
    /\ pc = "try_pandoc"
    /\ IsPresentation
    /\ IF env.pandoc_path # None
       THEN /\ temp_dirs' = run_pandoc(temp_dirs)
            /\ \/ /\ events' = Append(events, Event("_pandoc_to_txt", "ok"))
                  /\ converted' = "txt"
                  /\ outcome' = outcome
                  /\ pc' = "converted"
               \/ /\ events' = Append(events, Event("_pandoc_to_txt", "CalledProcessError"))
                  /\ converted' = converted
                  /\ outcome' = Raise("RuntimeError")
                  /\ pc' = "done"
       ELSE /\ outcome' = Raise("RuntimeError")
            /\ pc' = "done"
            /\ UNCHANGED << events, converted, temp_dirs >>
    /\ UNCHANGED << text, exc, officeFrame >>

\* office_doc_extraction.py:419-422: the converted file is read or parsed
ReadConverted ==
    /\ pc = "converted"
    /\ IF converted = "txt"
       THEN /\ text' = "text"
            /\ outcome' = Return("text")
       ELSE \/ /\ text' = "text"
               /\ outcome' = Return("text")
            \/ /\ text' = text
               /\ outcome' = Raise("PackageNotFoundError")
    /\ pc' = "done"
    /\ UNCHANGED << events, converted, temp_dirs, exc, officeFrame >>

\* office_doc_extraction.py:34-69
Word_call ==
    /\ pc = "call"
    /\ IsWord
    /\ LET e == validate_file(env.file)
       IN  IF e # None
           THEN /\ outcome' = Raise(e)
                /\ pc' = "done"
           ELSE IF env.ext \in { "docx", "docm" }
           THEN /\ outcome' = outcome
                /\ pc' = "_extract_docx"
           ELSE IF env.ext \in { "doc", "rtf" }
           THEN /\ outcome' = outcome
                /\ pc' = "_extract_legacy"
           ELSE /\ outcome' = Raise("ValueError")
                /\ pc' = "done"
    /\ UNCHANGED << events, converted, text, temp_dirs, exc, officeFrame >>

\* office_doc_extraction.py:72-106: mammoth, else python-docx, which may raise
_extract_docx ==
    /\ pc = "_extract_docx"
    /\ \/ /\ text' = "text"
          /\ outcome' = Return("text")
       \/ /\ text' = text
          /\ outcome' = Raise("PackageNotFoundError")
    /\ pc' = "done"
    /\ UNCHANGED << events, converted, temp_dirs, exc, officeFrame >>

\* a legacy path without the rtf branch
_extract_legacy_no_rtf_branch ==
    /\ pc = "_extract_legacy"
    /\ pc' = IF env.use_com THEN "CoInitialize" ELSE "try_pandoc"
    /\ UNCHANGED << events, text, outcome, converted, temp_dirs, exc, officeFrame >>

\* office_doc_extraction.py:132-140: rtf is read directly; doc goes to the
\* automation stage when use_word_com is set
_extract_legacy ==
    /\ pc = "_extract_legacy"
    /\ IF env.ext = "rtf"
       THEN /\ events' = Append(events, Event("rtf_to_text", "ok"))
            /\ text' = "text"
            /\ outcome' = Return("text")
            /\ pc' = "done"
       ELSE /\ pc' = IF env.use_com THEN "CoInitialize" ELSE "try_pandoc"
            /\ UNCHANGED << events, text, outcome >>
    /\ UNCHANGED << converted, temp_dirs, exc, officeFrame >>

\* office_doc_extraction.py:137-140: _word_com_to_txt returned or raised
WordComExit ==
    /\ pc = "com_exit"
    /\ IsWord
    /\ IF exc = None
       THEN /\ events' = Append(events, Event("_word_com_to_txt", "ok"))
            /\ outcome' = Return(text)
            /\ pc' = "done"
       ELSE /\ events' = Append(events, Event("_word_com_to_txt", exc))
            /\ outcome' = outcome
            /\ pc' = "try_pandoc"
    /\ exc' = None
    /\ UNCHANGED << converted, text, temp_dirs, officeFrame >>

\* office_doc_extraction.py:142-145 with _pandoc_to_txt (173-178): the
\* failure of pandoc is not caught here
LegacyPandoc ==
    /\ pc = "try_pandoc"
    /\ IsWord
    /\ IF env.pandoc_path # None
       THEN /\ temp_dirs' = run_pandoc(temp_dirs)
            /\ \/ /\ events' = Append(events, Event("_pandoc_to_txt", "ok"))
                  /\ text' = "text"
                  /\ outcome' = Return("text")
               \/ /\ events' = Append(events, Event("_pandoc_to_txt", "CalledProcessError"))
                  /\ text' = text
                  /\ outcome' = Raise("CalledProcessError")
       ELSE /\ outcome' = Raise("RuntimeError")
            /\ UNCHANGED << events, text, temp_dirs >>
    /\ pc' = "done"
    /\ UNCHANGED << converted, exc, officeFrame >>

NextOffice ==
    \/ Presentation_call \/ _extract_pptx \/ ConvertTryCom
    \/ CoInitialize \/ DispatchEx \/ PptComBody \/ WordComOpen \/ WordComSaveAs
    \/ Quit \/ CoUninitialize \/ PptComExit
    \/ ConvertTrySoffice \/ ConvertTryPandoc \/ ReadConverted
    \/ Word_call \/ _extract_docx \/ _extract_legacy \/ WordComExit \/ LegacyPandoc

SpecOffice == InitOffice /\ [][NextOffice]_vars

\* the conversion stages of _convert_to_pptx_or_txt, in the order of the code
Stages == << "_ppt_com_to_pptx", "_libreoffice_convert", "_pandoc_to_txt" >>

\* the guard under which _convert_to_pptx_or_txt attempts a stage
StageEnabled(k) ==
    CASE k = 1 -> env.use_com /\ env.ext \in { "ppt", "pps" }
      [] k = 2 -> env.soffice_path # None
      [] k = 3 -> env.pandoc_path # None

\* the last stage attempted so far (0 when none was)
LastAttempted ==
    LET attempted == { 0 } \cup { k \in 1..3 : Called(Stages[k]) }
    IN  CHOOSE k \in attempted : \A j \in attempted : j <= k

StageError(k) == events[Position(Stages[k])].result

\* ---------------------------------------------------------------------------
\* C13: when a Word or Presentation extractor call has returned or raised,
\* every temporary directory it made for conversion output (the Word COM
\* export, the PowerPoint COM export, the LibreOffice output directory, the
\* pandoc output directory) has been deleted.
C13_ConversionOutputDeleted ==
    pc = "done" =>
        temp_dirs \cap { "word_com_td", "ppt_com_tempdir", "soffice_outdir",
                         "pandoc_out" } = { }

\* ---------------------------------------------------------------------------
\* C14: once CoInitialize has been called and com_app has been left, Quit
\* and CoUninitialize have each been performed exactly once, whatever the
\* body or the creation of the application object or Quit itself did.
C14_ComSessionReleased ==
    (Called("CoInitialize")
        /\ pc \notin { "DispatchEx", "yield", "SaveAs2", "Quit", "CoUninitialize" })
    => (Count("Quit") = 1 /\ Count("CoUninitialize") = 1)

\* the stages are attempted in the order of Stages, each at most once, a
\* stage only when it is enabled and every enabled earlier one has failed,
\* and none after a success
ChainInOrder ==
    /\ \A k \in 1..3 : Count(Stages[k]) <= 1
    /\ \A k \in 1..3 : Called(Stages[k]) =>
          /\ StageEnabled(k)
          /\ \A j \in 1..(k - 1) :
                /\ StageEnabled(j) => Failed(Stages[j])
                /\ Called(Stages[j]) => Position(Stages[j]) < Position(Stages[k])
    /\ \A k \in 1..3 : (Called(Stages[k]) /\ ~ Failed(Stages[k])) =>
          \A j \in (k + 1)..3 : ~ Called(Stages[j])

\* every enabled stage was attempted and failed
ChainExhausted ==
    /\ \E k \in 1..3 : StageEnabled(k)
    /\ \A k \in 1..3 : StageEnabled(k) => Failed(Stages[k])

\* ---------------------------------------------------------------------------
\* C15 as stated: in the legacy-presentation chain the stages run in the order
\* OS automation, headless office suite, markup-conversion tool, a later one
\* only after every enabled earlier one failed, the first success ends the
\* chain, and when all enabled stages fail the caller receives the failure
\* of the last stage attempted.
C15_LastStageFailurePropagates ==
    IsPresentation =>
        /\ ChainInOrder
        /\ (pc = "done" /\ ChainExhausted) =>
              outcome = Raise(StageError(LastAttempted))

\* C15 as the code has it: the same order, and when all enabled stages fail
\* the caller receives the RuntimeError of line 574, whatever the stages
\* themselves raised; with no stage enabled the same RuntimeError is raised.
C15_ChainOrderAndRuntimeError ==
    IsPresentation =>
        /\ ChainInOrder
        /\ (pc = "done" /\ ChainExhausted) => outcome = Raise("RuntimeError")
        /\ (pc = "done" /\ outcome = Raise("RuntimeError")) =>
              \A k \in 1..3 : StageEnabled(k) => Failed(Stages[k])

\* all three stages were attempted and failed, and the call has ended
C15_Witness ==
    /\ IsPresentation
    /\ pc = "done"
    /\ \A k \in 1..3 : Failed(Stages[k])
    /\ outcome = Raise("RuntimeError")

\* the literal 'cafe - "hello"...'
ScenarioNormalized ==
    << "c", "a", "f", "e", " ", "-", " ",
       "\"", "h", "e", "l", "l", "o", "\"", ".", ".", "." >>

\* ---------------------------------------------------------------------------
\* C16: for a non-empty extraction result extract_and_normalize_text returns
\* the result of typographic-character replacement, then diacritic stripping,
\* then canonical-form normalisation, then white-space collapse and trim, so
\* that the scenario text becomes 'cafe - "hello"...'; an empty extraction
\* result skips the chain and the empty string is returned.
C16_ChainOrderAndScenario ==
    [][(pc = "normalize" /\ pc' = "done") =>
          /\ outcome' = Return(text')
          /\ text = << >> => text' = << >>
          /\ text # << >> =>
                text' = normalize_whitespace(
                            normalize_unicode(
                                strip_diacritics(common_char_replacements(text),
                                                 has_unidecode)))
          /\ text = ScenarioText => text' = ScenarioNormalized]_vars

\* the scenario text was extracted and its normalised form returned
C16_Witness ==
    /\ pc = "done"
    /\ outcome.kind = "return"
    /\ outcome.value = ScenarioNormalized

(***************************************************************************)
(* SpecNormalize: the normalisation chain of app.py:65-72 as a pure        *)
(* function, applied to a text and then to its own result.                 *)
(***************************************************************************)
MaxNormLen == 3

MaxRuns == 2

\* NUL, white space of three kinds, typographic characters, a precomposed
\* and a decomposed diacritic, a letter with no decomposition and an
\* ideograph whose transliteration ends in a space
NormChars ==
    { "a", "e", " ", "\n", "U+0000", "U+00A0", "U+2014", "U+2026", "U+00E9",
      "U+0301", "U+00DF", "U+4E2D" }

NormTexts == SeqsUpTo(NormChars, MaxNormLen)

InitNormalize ==
    /\ pc = "chain"
    /\ text \in NormTexts
    /\ has_unidecode \in BOOLEAN
    /\ normalized = << >>
    /\ calls = << >>
    /\ outcome = None
    /\ file_path = None
    /\ extractors = None
    /\ extractor = None
    /\ env = None
    /\ events = << >>
    /\ handler = None
    /\ error = None
    /\ converted = None
    /\ mime = None
    /\ IdlePdf

\* app.py:67-70: one run of the chain, on the text or on the last result
ApplyChain ==
    /\ pc = "chain"
    /\ Len(normalized) < MaxRuns
    /\ LET input == IF normalized = << >> THEN text ELSE normalized[Len(normalized)]
       IN  normalized' = Append(normalized, normalization_chain(input, has_unidecode))
    /\ UNCHANGED << pc, text, has_unidecode, calls, outcome, dispatchVars, env, events,
                    handler, error, converted, mime, pdf_file, pdf, doc, extracted_text, exc,
                    ocr_params, ocr_calls, get_text_calls, temp_dirs, direct_text,
                    ocr_output, computes, reads >>

NextNormalize == ApplyChain

SpecNormalize == InitNormalize /\ [][NextNormalize]_vars

\* ---------------------------------------------------------------------------
\* C17: the normalisation chain is idempotent: applying the four steps in
\* their order to the result of the chain gives that result again.
C17_ChainIdempotent ==
    Len(normalized) = 2 => normalized[2] = normalized[1]

\* the chain ran twice on a text that its first run changed into a
\* non-empty text
C17_Witness ==
    /\ Len(normalized) = 2
    /\ normalized[1] # text
    /\ normalized[1] # << >>
    /\ \E i \in DOMAIN text : text[i] = "U+4E2D"

(***************************************************************************)
(* SpecUpload: index_post of app.py (103-256), the handler of an upload.   *)
(* `env` is the request; extract_and_normalize_text runs as in SpecExtract *)
(* between the steps of the handler; `events` records the calls to the     *)
(* embedder and to the database.                                           *)
(***************************************************************************)
\* posixpath.basename: p[p.rfind('/') + 1:]
basename(p) == SubSeq(p, rfind(p, "/") + 1, Len(p))

NoTextError == "no text could be extracted from that file."

\* no file part, a directory-like name, names that dispatch to an extractor
\* and a name that goes to Tika
UploadedNames ==
    { << >>, << "d", "/" >>, << "a", ".", "p", "d", "f" >>,
      << "d", "/", "a", ".", "t", "x", "t" >>, << "a" >> }

\* search_target_path: empty, under the mount, outside the mount
SearchTargets == { "", "under", "outside" }

InitUpload ==
    /\ handler = "begin"
    /\ pc = "idle"
    /\ env \in [ filename : UploadedNames, search_target_path : SearchTargets ]
    /\ error = None
    /\ events = << >>
    /\ file_path = None
    /\ extractors = extractors_list
    /\ extractor = None
    /\ text = None
    /\ calls = << >>
    /\ has_unidecode \in BOOLEAN
    /\ outcome = None
    /\ normalized = << >>
    /\ converted = None
    /\ mime = None
    /\ IdlePdf

uploadFrame ==
    << extractors, extractor, text, calls, has_unidecode, outcome, pdf_file, pdf, doc,
       extracted_text, ocr_params, ocr_calls, get_text_calls, direct_text, ocr_output,
       computes, reads, env, normalized, converted, mime >>

\* app.py:109-136: the path filter, the check for a file, then mkdtemp
UploadBegin ==
    /\ handler = "begin"
    /\ LET e1 == IF env.search_target_path = "outside"
                 THEN "Search target path must be under the mount" ELSE None
           e2 == IF e1 = None /\ env.filename = << >>
                 THEN "please choose a file." ELSE e1
       IN  /\ error' = e2
           /\ IF e2 = None
              THEN /\ temp_dirs' = temp_dirs \cup { "upload_" }
                   /\ handler' = "save"
              ELSE /\ temp_dirs' = temp_dirs
                   /\ handler' = "returned"
    /\ UNCHANGED << pc, file_path, events, exc, uploadFrame >>

\* app.py:137-143, before the `try`: the upload is read and written to
\* temp_dir/basename(filename); an empty basename names the directory itself
SaveUpload ==
    /\ handler = "save"
    /\ \/ /\ basename(env.filename) # << >>
          /\ file_path' = basename(env.filename)
          /\ pc' = "select"
          /\ handler' = "extract"
          /\ exc' = exc
       \/ /\ exc' = IF basename(env.filename) = << >>
                     THEN "IsADirectoryError" ELSE "OSError"
          /\ handler' = "raised"
          /\ UNCHANGED << file_path, pc >>
    /\ UNCHANGED << error, events, temp_dirs, uploadFrame >>

\* a handler that goes on to the embedder whatever the text is
AfterExtract_always_embeds ==
    /\ handler = "extract"
    /\ pc = "done"
    /\ IF outcome.kind = "raise"
       THEN /\ exc' = outcome.value
            /\ error' = error
            /\ handler' = "finally"
       ELSE /\ exc' = exc
            /\ error' = IF outcome.value = << >> \/ IsBlank(outcome.value)
                        THEN NoTextError ELSE error
            /\ handler' = "embed"
    /\ UNCHANGED << pc, file_path, events, temp_dirs, uploadFrame >>

\* app.py:147-150: extract_and_normalize_text has returned or raised
AfterExtract ==
    /\ handler = "extract"
    /\ pc = "done"
    /\ IF outcome.kind = "raise"
       THEN /\ exc' = outcome.value
            /\ error' = error
            /\ handler' = "finally"
       ELSE /\ exc' = exc
            /\ error' = IF outcome.value = << >> \/ IsBlank(outcome.value)
                        THEN NoTextError ELSE error
            /\ handler' = IF outcome.value = << >> \/ IsBlank(outcome.value)
                          THEN "finally" ELSE "embed"
    /\ UNCHANGED << pc, file_path, events, temp_dirs, uploadFrame >>

\* app.py:153-156
EmbedText ==
    /\ handler = "embed"
    /\ \/ /\ events' = Append(events, Event("_embed_text", "ok"))
          /\ exc' = exc
          /\ handler' = "search"
       \/ /\ events' = Append(events, Event("_embed_text", "RuntimeError"))
          /\ exc' = "RuntimeError"
          /\ handler' = "finally"
    /\ UNCHANGED << pc, file_path, error, temp_dirs, uploadFrame >>

\* app.py:159-232
SimilaritySearch ==
    /\ handler = "search"
    /\ \/ /\ events' = Append(events, Event("get_connection", "ok"))
          /\ exc' = exc
       \/ /\ events' = Append(events, Event("get_connection", "OperationalError"))
          /\ exc' = "OperationalError"
    /\ handler' = "finally"
    /\ UNCHANGED << pc, file_path, error, temp_dirs, uploadFrame >>

\* app.py:234-256: the file and the directory are removed, then the
\* exception goes on or the response is returned
UploadFinally ==
    /\ handler = "finally"
    /\ temp_dirs' = temp_dirs \ { "upload_" }
    /\ handler' = IF exc # None THEN "raised" ELSE "returned"
    /\ UNCHANGED << pc, file_path, error, events, exc, uploadFrame >>

NextUpload ==
    \/ UploadBegin \/ SaveUpload
    \/ SelectExtractor \/ CallExtractor \/ CallTika \/ Normalize
    \/ AfterExtract \/ EmbedText \/ SimilaritySearch \/ UploadFinally

SpecUpload == InitUpload /\ [][NextUpload]_vars

\* extract_and_normalize_text was called and returned an empty or blank text
NoTextExtracted ==
    /\ pc = "done"
    /\ outcome.kind = "return"
    /\ IsBlank(outcome.value)

\* ---------------------------------------------------------------------------
\* C18: when the normalised text is empty or only white space the handler
\* returns its response with the 'no text could be extracted' error and does
\* not raise, and neither the embedder nor the database has been called; a
\* request whose extraction raised never ends with that error.
C18_NoTextOutcome ==
    /\ (handler \in { "returned", "raised" } /\ NoTextExtracted) =>
          /\ handler = "returned"
          /\ error = NoTextError
          /\ ~ Called("_embed_text")
          /\ ~ Called("get_connection")
    /\ error = NoTextError =>
          /\ NoTextExtracted
          /\ exc = None
          /\ ~ Called("_embed_text")
          /\ ~ Called("get_connection")
    /\ (pc = "done" /\ outcome.kind = "raise") => error # NoTextError

\* a request whose upload held only characters that normalise to nothing
C18_Witness ==
    /\ handler = "returned"
    /\ error = NoTextError
    /\ Len(calls) = 1
    /\ temp_dirs = { }

(***************************************************************************)
(* SpecTextFile: TextFileTextExtractor.__call__ (basic_extraction.py       *)
(* 67-112).  A file is a sequence of bytes; a decoded text is the sequence *)
(* of its code points.  Each codec is modelled by what Python's codec of   *)
(* that name does with the bytes.                                          *)
(***************************************************************************)
MaxBytes == 3

\* 'A', the two bytes of U+00E9 in UTF-8, a lead byte of a three-byte
\* sequence, a byte cp1252 maps away from latin-1, a byte cp1252 rejects
FileBytes == { 65, 195, 169, 233, 128, 129 }

Decoded(t) == [ok |-> TRUE, text |-> t]

DecodeError == [ok |-> FALSE, text |-> << >>]

IsContinuation(x) == x >= 128 /\ x <= 191

\* the length of the UTF-8 sequence a lead byte announces (0: no lead byte)
utf_8_length(b1) ==
    IF b1 < 128 THEN 1
    ELSE IF b1 >= 194 /\ b1 <= 223 THEN 2
    ELSE IF b1 >= 224 /\ b1 <= 239 THEN 3
    ELSE IF b1 >= 240 /\ b1 <= 244 THEN 4
    ELSE 0

utf_8_code_point(b, n) ==
    CASE n = 1 -> b[1]
      [] n = 2 -> (b[1] - 192) * 64 + (b[2] - 128)
      [] n = 3 -> (b[1] - 224) * 4096 + (b[2] - 128) * 64 + (b[3] - 128)
      [] n = 4 -> (b[1] - 240) * 262144 + (b[2] - 128) * 4096
                    + (b[3] - 128) * 64 + (b[4] - 128)

RECURSIVE utf_8(_)
\* bytes.decode("utf-8"), strict
utf_8(b) ==
    IF b = << >> THEN Decoded(<< >>)
    ELSE LET n == utf_8_length(b[1])
         IN  IF \/ n = 0
                \/ Len(b) < n
                \/ \E k \in 2..n : ~ IsContinuation(b[k])
                \/ (b[1] = 224 /\ b[2] < 160)
                \/ (b[1] = 237 /\ b[2] > 159)
                \/ (b[1] = 240 /\ b[2] < 144)
                \/ (b[1] = 244 /\ b[2] > 143)
             THEN DecodeError
             ELSE LET rest == utf_8(SubSeq(b, n + 1, Len(b)))
                  IN  IF rest.ok
                      THEN Decoded(<< utf_8_code_point(b, n) >> \o rest.text)
                      ELSE DecodeError

\* a latin-1 that rejects the bytes 0x80-0x9F
latin_1_without_c1(b) ==
    IF \E i \in DOMAIN b : b[i] >= 128 /\ b[i] <= 159
    THEN DecodeError ELSE Decoded(b)

\* bytes.decode("latin-1"): every byte is the code point of that number
latin_1(b) == Decoded(b)

\* the bytes 0x80-0x9F that cp1252 defines, with their code points
cp1252_table ==
    (128 :> 8364) @@ (130 :> 8218) @@ (131 :> 402) @@ (132 :> 8222) @@ (133 :> 8230) @@
    (134 :> 8224) @@ (135 :> 8225) @@ (136 :> 710) @@ (137 :> 8240) @@ (138 :> 352) @@
    (139 :> 8249) @@ (140 :> 338) @@ (142 :> 381) @@ (145 :> 8216) @@ (146 :> 8217) @@
    (147 :> 8220) @@ (148 :> 8221) @@ (149 :> 8226) @@ (150 :> 8211) @@ (151 :> 8212) @@
    (152 :> 732) @@ (153 :> 8482) @@ (154 :> 353) @@ (155 :> 8250) @@ (156 :> 339) @@
    (158 :> 382) @@ (159 :> 376)

\* bytes.decode("cp1252"): 0x81, 0x8D, 0x8F, 0x90, 0x9D are undefined
cp1252(b) ==
    IF \E i \in DOMAIN b : b[i] \in { 129, 141, 143, 144, 157 }
    THEN DecodeError
    ELSE Decoded([i \in DOMAIN b |->
                    IF b[i] \in DOMAIN cp1252_table THEN cp1252_table[b[i]] ELSE b[i]])

\* bytes.decode("ascii")
ascii(b) ==
    IF \E i \in DOMAIN b : b[i] >= 128 THEN DecodeError ELSE Decoded(b)

decode(encoding, b) ==
    CASE encoding = "utf-8" -> utf_8(b)
      [] encoding = "latin-1" -> latin_1(b)
      [] encoding = "cp1252" -> cp1252(b)
      [] encoding = "ascii" -> ascii(b)

\* a list that tries cp1252 before latin-1
encodings_cp1252_first == << "utf-8", "cp1252", "latin-1", "ascii" >>

\* basic_extraction.py:65
encodings == << "utf-8", "latin-1", "cp1252", "ascii" >>

RECURSIVE try_encodings(_, _)
\* basic_extraction.py:94-109: the attempts of the loop from the i-th
\* encoding on, up to and including the first that decodes the file
try_encodings(b, i) ==
    IF i > Len(encodings) THEN << >>
    ELSE IF decode(encodings[i], b).ok
         THEN << Event(encodings[i], "ok") >>
         ELSE << Event(encodings[i], "UnicodeDecodeError") >> \o try_encodings(b, i + 1)

\* basic_extraction.py:98-107: what is returned for a decoded text
read_result(ext, t) ==
    [text |-> t,
     via  |-> CASE ext = "xml" -> "strip_html(parser=xml)"
                [] ext = "md" -> "strip_html(markdown.markdown)"
                [] OTHER -> "file.read"]

TextFiles ==
    { [exists |-> FALSE, is_file |-> FALSE, bytes |-> << >>] }
        \cup { [exists |-> TRUE, is_file |-> TRUE, bytes |-> b] :
                 b \in SeqsUpTo(FileBytes, MaxBytes) }

InitTextFile ==
    /\ pc = "call"
    /\ env \in [ file : TextFiles, ext : { "txt", "xml", "md" } ]
    /\ events = << >>
    /\ outcome = None
    /\ text = None
    /\ calls = << >>
    /\ has_unidecode = None
    /\ file_path = None
    /\ extractors = None
    /\ extractor = None
    /\ handler = None
    /\ error = None
    /\ normalized = << >>
    /\ converted = None
    /\ mime = None
    /\ IdlePdf

\* basic_extraction.py:90
TextFile_validate ==
    /\ pc = "call"
    /\ LET e == validate_file(env.file)
       IN  IF e # None
           THEN /\ outcome' = Raise(e)
                /\ pc' = "done"
           ELSE /\ outcome' = outcome
                /\ pc' = "encodings"
    /\ UNCHANGED << dispatchVars, text, calls, has_unidecode, pdf_file, pdf, doc,
                    extracted_text, exc, ocr_params, ocr_calls, get_text_calls,
                    temp_dirs, direct_text, ocr_output, computes, reads, env, events,
                    handler, error, normalized, converted, mime >>

\* basic_extraction.py:94-112: the loop over the encodings and what follows it
TextFile_read ==
    /\ pc = "encodings"
    /\ LET attempts == try_encodings(env.file.bytes, 1)
           last == attempts[Len(attempts)]
       IN  /\ events' = attempts
           /\ outcome' = IF last.result = "ok"
                         THEN Return(read_result(env.ext,
                                                 decode(last.call, env.file.bytes).text))
                         ELSE Raise("ValueError")
    /\ pc' = "done"
    /\ UNCHANGED << dispatchVars, text, calls, has_unidecode, pdf_file, pdf, doc,
                    extracted_text, exc, ocr_params, ocr_calls, get_text_calls,
                    temp_dirs, direct_text, ocr_output, computes, reads, env,
                    handler, error, normalized, converted, mime >>

NextTextFile == TextFile_validate \/ TextFile_read

SpecTextFile == InitTextFile /\ [][NextTextFile]_vars

\* the order in which the claim has the encodings tried
ClaimedOrder == << "utf-8", "latin-1", "cp1252", "ascii" >>

Readable(k) == decode(ClaimedOrder[k], env.file.bytes).ok

\* ---------------------------------------------------------------------------
\* C19: TextFileTextExtractor tries utf-8, latin-1, cp1252, ascii in that
\* order and returns the content decoded by the first that succeeds; a file
\* readable under one of them is extracted, a file readable under none fails
\* with ValueError.
C19_FirstEncodingThatDecodes ==
    (pc = "done" /\ env.file.exists /\ env.file.is_file) =>
        /\ Len(events) <= 4
        /\ \A i \in DOMAIN events : events[i].call = ClaimedOrder[i]
        /\ \A k \in 1..4 :
              (Readable(k) /\ \A j \in 1..(k - 1) : ~ Readable(j)) =>
                  /\ Len(events) = k
                  /\ outcome.kind = "return"
                  /\ outcome.value.text
                        = decode(ClaimedOrder[k], env.file.bytes).text
        /\ (\A k \in 1..4 : ~ Readable(k)) =>
              (outcome.kind = "raise" /\ outcome.value = "ValueError")

\* a file that is no valid UTF-8, holds a byte that cp1252 and latin-1
\* decode differently, and was extracted
C19_Witness ==
    /\ pc = "done"
    /\ outcome.kind = "return"
    /\ Len(events) = 2
    /\ \E i \in DOMAIN env.file.bytes : env.file.bytes[i] = 128

(***************************************************************************)
(* SpecTika: TikaTextExtractor.__call__ (basic_extraction.py 165-196) with *)
(* _detect_mime (153-163).  The server's answers are drawn at the step     *)
(* that sends the request; `events` records each request with the status   *)
(* of its response.                                                        *)
(***************************************************************************)
\* str.strip(): the text without its leading and trailing white space
strip(s) ==
    LET kept == { i \in DOMAIN s : s[i] \notin Whitespace }
    IN  IF kept = { } THEN << >>
        ELSE SubSeq(s, CHOOSE i \in kept : \A j \in kept : i <= j,
                       CHOOSE i \in kept : \A j \in kept : j <= i)

\* httpx.Response.raise_for_status(): every status outside 2xx raises
raise_for_status(status) ==
    IF status >= 200 /\ status <= 299 THEN None ELSE "HTTPStatusError"

\* the statuses the server answers with: success, no content, a redirect
\* (redirects are not followed), client and server errors
Statuses == { 200, 201, 204, 301, 302, 400, 404, 422, 500, 503 }

\* bodies of the detection response; a media type is one element
DetectBodies ==
    { << >>, << " ", "\n" >>, << "application/octet-stream" >>,
      << "application/octet-stream", "\n" >>, << "application/pdf", "\n" >>,
      << "text/plain" >> }

\* bodies of the extraction response
TikaBodies == { << >>, << " " >>, << "a" >> }

InitTika ==
    /\ pc = "call"
    /\ env \in [ file : OfficeFiles ]
    /\ events = << >>
    /\ mime = None
    /\ outcome = None
    /\ text = None
    /\ calls = << >>
    /\ has_unidecode = None
    /\ file_path = None
    /\ extractors = None
    /\ extractor = None
    /\ handler = None
    /\ error = None
    /\ normalized = << >>
    /\ converted = None
    /\ IdlePdf

tikaFrame ==
    << dispatchVars, calls, has_unidecode, pdf_file, pdf, doc, extracted_text, exc,
       ocr_params, ocr_calls, get_text_calls, temp_dirs, direct_text, ocr_output,
       computes, reads, env, handler, error, normalized, converted >>

\* basic_extraction.py:166
Tika_validate ==
    /\ pc = "call"
    /\ LET e == validate_file(env.file)
       IN  IF e # None
           THEN /\ outcome' = Raise(e)
                /\ pc' = "done"
           ELSE /\ outcome' = outcome
                /\ pc' = "_detect_mime"
    /\ UNCHANGED << events, mime, text, tikaFrame >>

\* basic_extraction.py:153-163 and 169-172: the detection request, then the
\* fast failure on an unknown type
_detect_mime ==
    /\ pc = "_detect_mime"
    /\ \E status \in Statuses, body \in DetectBodies :
          /\ events' = Append(events, Event("PUT /detect/stream", status))
          /\ IF raise_for_status(status) # None
             THEN /\ mime' = mime
                  /\ outcome' = Raise(raise_for_status(status))
                  /\ pc' = "done"
             ELSE /\ mime' = strip(body)
                  /\ IF strip(body) = << >>
                        \/ strip(body) = << "application/octet-stream" >>
                     THEN /\ outcome' = Raise("TikaUnsupportedError")
                          /\ pc' = "done"
                     ELSE /\ outcome' = outcome
                          /\ pc' = "put_tika"
    /\ UNCHANGED << text, tikaFrame >>

\* an extraction step that takes 204 for a success
Tika_extract_no_204 ==
    /\ pc = "put_tika"
    /\ \E status \in Statuses, body \in TikaBodies :
          /\ events' = Append(events, Event("PUT /tika", status))
          /\ IF status = 422
             THEN /\ outcome' = Raise("TikaUnsupportedError")
                  /\ text' = text
             ELSE IF raise_for_status(status) # None
             THEN /\ outcome' = Raise(raise_for_status(status))
                  /\ text' = text
             ELSE /\ outcome' = Return(body)
                  /\ text' = body
    /\ pc' = "done"
    /\ UNCHANGED << mime, tikaFrame >>

\* basic_extraction.py:176-196: the extraction request and its outcomes
Tika_extract ==
    /\ pc = "put_tika"
    /\ \E status \in Statuses, body \in TikaBodies :
          /\ events' = Append(events, Event("PUT /tika", status))
          /\ IF status = 204
             THEN /\ outcome' = Raise("TikaNoContentError")
                  /\ text' = text
             ELSE IF status = 422
             THEN /\ outcome' = Raise("TikaUnsupportedError")
                  /\ text' = text
             ELSE IF raise_for_status(status) # None
             THEN /\ outcome' = Raise(raise_for_status(status))
                  /\ text' = text
             ELSE /\ outcome' = Return(body)
                  /\ text' = body
    /\ pc' = "done"
    /\ UNCHANGED << mime, tikaFrame >>

NextTika == Tika_validate \/ _detect_mime \/ Tika_extract

SpecTika == InitTika /\ [][NextTika]_vars

\* the status of the response to a request that was sent
StatusOf(call) == events[Position(call)].result

Is2xx(status) == status >= 200 /\ status <= 299

\* ---------------------------------------------------------------------------
\* C20: in one TikaTextExtractor call the detection request precedes the
\* extraction request; an empty or application/octet-stream type ends the
\* call with TikaUnsupportedError and no extraction request; an extraction
\* response of 204 gives TikaNoContentError, of 422 TikaUnsupportedError, of
\* any other status outside 2xx an HTTP error of neither kind, and text is
\* returned only for a 2xx response.
C20_TikaRequestOrderAndStatuses ==
    /\ Count("PUT /detect/stream") <= 1
    /\ Count("PUT /tika") <= 1
    /\ Called("PUT /tika") =>
          /\ Called("PUT /detect/stream")
          /\ Position("PUT /detect/stream") < Position("PUT /tika")
    /\ (pc = "done" /\ Called("PUT /detect/stream")
            /\ Is2xx(StatusOf("PUT /detect/stream"))
            /\ (mime = << >> \/ mime = << "application/octet-stream" >>)) =>
          /\ outcome.kind = "raise"
          /\ outcome.value = "TikaUnsupportedError"
          /\ ~ Called("PUT /tika")
    /\ (pc = "done" /\ Called("PUT /tika")) =>
          LET status == StatusOf("PUT /tika")
          IN  /\ status = 204 =>
                    (outcome.kind = "raise" /\ outcome.value = "TikaNoContentError")
              /\ status = 422 =>
                    (outcome.kind = "raise" /\ outcome.value = "TikaUnsupportedError")
              /\ (~ Is2xx(status) /\ status # 422) =>
                    /\ outcome.kind = "raise"
                    /\ outcome.value
                          \notin { "TikaNoContentError", "TikaUnsupportedError" }
              /\ outcome.kind = "return" <=> (Is2xx(status) /\ status # 204)
    /\ (pc = "done" /\ outcome.kind = "return") => Called("PUT /tika")

\* the extraction request was answered with 204
C20_Witness ==
    /\ pc = "done"
    /\ Called("PUT /tika")
    /\ StatusOf("PUT /tika") = 204
    /\ outcome.kind = "raise"
    /\ outcome.value = "TikaNoContentError"

\* ---------------------------------------------------------------------------
\* C24: for one PDFFile handle the page dimensions are computed at most once
\* and the large-format flag is computed at most once, however often and in
\* whatever order pages_dims and has_large_format are read, and every read
\* of a property returns the value its first read returned.
C24_PropertiesComputedOnce ==
    pc = "ready" =>
        /\ computes.pages_dims <= 1
        /\ computes.has_large_format <= 1
        /\ \A i, j \in DOMAIN reads :
              reads[i].prop = reads[j].prop => reads[i].value = reads[j].value
        /\ (reads # << >>) => computes.pages_dims = 1
        /\ (\E i \in DOMAIN reads : reads[i].prop = "has_large_format")
              <=> computes.has_large_format = 1

\* has_large_format was read, then pages_dims, then has_large_format again
C24_Witness ==
    /\ pc = "ready"
    /\ Len(reads) = 3
    /\ reads[1].prop = "has_large_format"
    /\ reads[2].prop = "pages_dims"
    /\ reads[3].prop = "has_large_format"
    /\ computes = [pages_dims |-> 1, has_large_format |-> 1]

C29_HandleClosedBeforeDirRemoved ==
    [][("text_extractor_" \in temp_dirs /\ "text_extractor_" \notin temp_dirs')
          => doc # "open"]_vars

C28_LoopEndsAtUtf8OrLatin1 ==
    /\ \A i \in DOMAIN events : events[i].call \in { "utf-8", "latin-1" }
    /\ (pc = "done" /\ validate_file(env.file) = None) =>
          /\ outcome.kind = "return"
          /\ Len(events) \in { 1, 2 }
          /\ events[Len(events)].result = "ok"

\* a file that neither utf-8 nor cp1252 nor ascii decodes was extracted
C28_Witness ==
    /\ pc = "done"
    /\ outcome.kind = "return"
    /\ ~ utf_8(env.file.bytes).ok
    /\ ~ cp1252(env.file.bytes).ok
    /\ ~ ascii(env.file.bytes).ok
    /\ events[Len(events)] = Event("latin-1", "ok")

\* ---------------------------------------------------------------------------
\* C30: when the handler of an upload that made the "upload_" directory has
\* finished, by returning or by raising, the directory and the saved file in
\* it are gone, also when reading the upload or writing it to disk failed.
C30_UploadDirRemoved ==
    handler \in { "returned", "raised" } => "upload_" \notin temp_dirs

\* ---------------------------------------------------------------------------
\* C27: in the application's extractor list no extension is declared by more
\* than one extractor, so the extractor selected for a file is the same
\* whichever end of the list the search starts from.
C27_SelectionIndependentOfOrder ==
    pc # "select" =>
        extractor = get_extractor_for_file_last(file_path, extractors)

(***************************************************************************)
(* SpecSpreadsheet: SpreadsheetTextExtractor.__call__ on one file.  A      *)
(* worksheet is a data frame: the column names and a grid of cells, a cell *)
(* being NaN or a value.  A serialised sheet is the sequence of its lines, *)
(* a line being the sequence of the cells the delimiter joins.             *)
(***************************************************************************)
MaxSheetRows == 3
MaxSheetCols == 2

NaN == "nan"

ColumnNames == << "c1", "c2", "c3", "c4" >>

\* the data frames excel_file.parse can return
DataFrames ==
    { [columns |-> SubSeq(ColumnNames, 1, MaxSheetCols), rows |-> g] :
        g \in [1..MaxSheetRows -> [1..MaxSheetCols -> { NaN, "x" }]] }

\* max_rows and max_cols; 0 stands for None (no limit), which `if self.max_rows`
\* treats like 0
Limits == { 0, 1, 2 }

SelectSeq2(s, keep) ==
    LET F[i \in 0..Len(s)] ==
            IF i = 0 THEN << >>
            ELSE IF i \in keep THEN Append(F[i - 1], s[i]) ELSE F[i - 1]
    IN  F[Len(s)]

\* office_doc_extraction.py:290, df.head(n)
head(df, n) == [df EXCEPT !.rows = SubSeq(df.rows, 1, Min(n, Len(df.rows)))]

\* office_doc_extraction.py:291, df.iloc[:, :n]
iloc_cols(df, n) ==
    LET k == Min(n, Len(df.columns))
    IN  [columns |-> SubSeq(df.columns, 1, k),
         rows |-> [i \in DOMAIN df.rows |-> SubSeq(df.rows[i], 1, k)]]

\* df.dropna(how="all"): the rows holding at least one value
dropna_rows(df) ==
    [df EXCEPT !.rows =
        SelectSeq2(df.rows, { i \in DOMAIN df.rows :
                                \E j \in DOMAIN df.rows[i] : df.rows[i][j] # NaN })]

\* df.dropna(axis=1, how="all"): the columns holding at least one value
dropna_cols(df) ==
    LET keep == { j \in DOMAIN df.columns :
                    \E i \in DOMAIN df.rows : df.rows[i][j] # NaN }
    IN  [columns |-> SelectSeq2(df.columns, keep),
         rows |-> [i \in DOMAIN df.rows |-> SelectSeq2(df.rows[i], keep)]]

\* office_doc_extraction.py:314-326, with include_headers at its default
_df_to_text(df, sheet) ==
    LET d == dropna_cols(dropna_rows(df))
    IN  << << "=== Sheet: ", sheet, " ===" >> >>
          \o << d.columns >>
          \o [i \in DOMAIN d.rows |->
                [j \in DOMAIN d.rows[i] |->
                    IF d.rows[i][j] = NaN THEN "" ELSE d.rows[i][j]]]

\* office_doc_extraction.py:290-291: the limits applied to the parsed frame
limit(df, max_rows, max_cols) ==
    LET r == IF max_rows # 0 THEN head(df, max_rows) ELSE df
    IN  IF max_cols # 0 THEN iloc_cols(r, max_cols) ELSE r

\* office_doc_extraction.py:287-296 for a workbook of one sheet
sheet_text(df, max_rows, max_cols) ==
    _df_to_text(limit(df, max_rows, max_cols), "S1")

SheetError(type, msg) == [type |-> type, msg |-> msg]

NoError == SheetError("None", << >>)

\* office_doc_extraction.py:328-370: the engine, or the ImportError raised
\* when the module of the format cannot be imported
_pick_engine(ext, installed) ==
    CASE ext \in { "xlsx", "xlsm" } -> [engine |-> "openpyxl", raised |-> NoError]
      [] ext = "xls" ->
            IF installed THEN [engine |-> "xlrd", raised |-> NoError]
            ELSE [engine |-> "None", raised |->
                    SheetError("ImportError", << "x", "l", "r", "d", " ", "1", ".", "2", ".", "0", " ", "r", "e", "q", "u", "i", "r", "e", "d", " ", "f", "o", "r", " ", ".", "x", "l", "s", ",", " ", "o", "r", " ", "c", "o", "n", "v", "e", "r", "t", " ", "t", "o", " ", ".", "x", "l", "s", "x", " ", "f", "i", "r", "s", "t", "." >>)]
      [] ext = "xlsb" ->
            IF installed THEN [engine |-> "pyxlsb", raised |-> NoError]
            ELSE [engine |-> "None", raised |->
                    SheetError("ImportError", << "p", "y", "x", "l", "s", "b", " ", "r", "e", "q", "u", "i", "r", "e", "d", " ", "f", "o", "r", " ", ".", "x", "l", "s", "b", ",", " ", "o", "r", " ", "c", "o", "n", "v", "e", "r", "t", " ", "f", "i", "r", "s", "t", "." >>)]
      [] ext = "ods" ->
            IF installed THEN [engine |-> "odf", raised |-> NoError]
            ELSE [engine |-> "None", raised |->
                    SheetError("ImportError", << "o", "d", "f", "p", "y", " ", "r", "e", "q", "u", "i", "r", "e", "d", " ", "f", "o", "r", " ", ".", "o", "d", "s", ",", " ", "o", "r", " ", "c", "o", "n", "v", "e", "r", "t", " ", "f", "i", "r", "s", "t", "." >>)]
      [] OTHER -> [engine |-> "openpyxl", raised |-> NoError]

\* what pd.ExcelFile and excel_file.parse raise on a workbook they cannot
\* read, and what open() raises on a file it may not read
OpenErrors ==
    { SheetError("BadZipFile", << "F", "i", "l", "e", " ", "i", "s", " ", "n", "o", "t", " ", "a", " ", "z", "i", "p", " ", "f", "i", "l", "e" >>),
      SheetError("BadZipFile", << "B", "a", "d", " ", "m", "a", "g", "i", "c", " ", "n", "u", "m", "b", "e", "r", " ", "f", "o", "r", " ", "c", "e", "n", "t", "r", "a", "l", " ", "d", "i", "r", "e", "c", "t", "o", "r", "y" >>),
      SheetError("XLRDError", << "U", "n", "s", "u", "p", "p", "o", "r", "t", "e", "d", " ", "f", "o", "r", "m", "a", "t", ",", " ", "o", "r", " ", "c", "o", "r", "r", "u", "p", "t", " ", "f", "i", "l", "e" >>),
      SheetError("PermissionError", << "P", "e", "r", "m", "i", "s", "s", "i", "o", "n", " ", "d", "e", "n", "i", "e", "d" >>) }

\* `sub in s` on character sequences
Contains(s, sub) ==
    \E i \in 1..(Len(s) - Len(sub) + 1) : SubSeq(s, i, i + Len(sub) - 1) = sub

\* office_doc_extraction.py:231, "zip file" in str(e).lower()
mentions_zip_file(e) == Contains(lower(e.msg), << "z", "i", "p", " ", "f", "i", "l", "e" >>)

RECURSIVE utf_8_ignore(_)
\* bytes.decode("utf-8", errors="ignore"): the bytes that begin no valid
\* sequence are skipped
utf_8_ignore(b) ==
    IF b = << >> THEN << >>
    ELSE LET n == utf_8_length(b[1])
         IN  IF n > 0 /\ Len(b) >= n /\ utf_8(SubSeq(b, 1, n)).ok
             THEN << utf_8_code_point(b, n) >> \o utf_8_ignore(SubSeq(b, n + 1, Len(b)))
             ELSE utf_8_ignore(Tail(b))

\* the bytes of the delimited files
SheetContents == { << >>, << 65 >>, << 65, 233, 65 >>, << 195, 169 >>, << 195, 65 >> }

SheetExts == { "xlsx", "xls", "xlsb", "ods", "csv", "tsv" }

BlankFrame ==
    [columns |-> SubSeq(ColumnNames, 1, MaxSheetCols),
     rows |-> [i \in 1..MaxSheetRows |-> [j \in 1..MaxSheetCols |-> NaN]]]

\* the calls: a readable workbook with any frame and any limits, and the
\* calls that fail or read a delimited file, where frame and limits play no
\* part
SheetCalls ==
    { [file |-> [NoFile EXCEPT !.exists = TRUE, !.is_file = TRUE], ext |-> x,
       installed |-> TRUE, open_error |-> NoError, content |-> << >>, df |-> d,
       max_rows |-> r, max_cols |-> c] :
        x \in { "xlsx", "xls" }, d \in DataFrames, r \in Limits, c \in Limits }
    \cup
    { [file |-> f, ext |-> x, installed |-> i, open_error |-> e, content |-> b,
       df |-> BlankFrame, max_rows |-> 0, max_cols |-> 0] :
        f \in OfficeFiles, x \in SheetExts, i \in BOOLEAN,
        e \in OpenErrors \cup { NoError }, b \in SheetContents }

InitSpreadsheet ==
    /\ pc = "call"
    /\ env \in SheetCalls
    /\ events = << >>
    /\ error = None
    /\ outcome = None
    /\ text = None
    /\ calls = << >>
    /\ has_unidecode = None
    /\ file_path = None
    /\ extractors = None
    /\ extractor = None
    /\ handler = None
    /\ normalized = << >>
    /\ converted = None
    /\ mime = None
    /\ IdlePdf

sheetFrame ==
    << dispatchVars, calls, has_unidecode, pdf_file, pdf, doc, extracted_text, exc,
       ocr_params, ocr_calls, get_text_calls, temp_dirs, direct_text, ocr_output,
       computes, reads, env, handler, normalized, converted, mime >>

\* office_doc_extraction.py:218
Spreadsheet_call ==
    /\ pc = "call"
    /\ LET e == validate_file(env.file)
       IN  IF e # None
           THEN /\ outcome' = Raise(SheetError(e, << >>))
                /\ pc' = "done"
           ELSE /\ outcome' = outcome
                /\ pc' = "read"
    /\ UNCHANGED << events, error, text, sheetFrame >>

\* office_doc_extraction.py:223-224 and 239-258
_read_delimited ==
    /\ pc = "read"
    /\ env.ext \in { "csv", "tsv" }
    /\ IF env.open_error # NoError
       THEN /\ events' = Append(events, Event("open", env.open_error.type))
            /\ error' = env.open_error
            /\ pc' = "except"
            /\ UNCHANGED << text, outcome >>
       ELSE /\ events' = Append(events, Event("open", "ok"))
            /\ text' = utf_8_ignore(env.content)
            /\ outcome' = Return(text')
            /\ pc' = "done"
            /\ UNCHANGED error
    /\ UNCHANGED sheetFrame

\* office_doc_extraction.py:225-226 and 260-296
_read_excel_like ==
    /\ pc = "read"
    /\ env.ext \notin { "csv", "tsv" }
    /\ LET picked == _pick_engine(env.ext, env.installed)
       IN  IF picked.raised # NoError
           THEN /\ events' = Append(events, Event("_pick_engine", picked.raised.type))
                /\ error' = picked.raised
                /\ pc' = "except"
                /\ UNCHANGED << text, outcome >>
           ELSE IF env.open_error # NoError
           THEN /\ events' = events \o << Event("_pick_engine", "ok"),
                                          Event("ExcelFile", env.open_error.type) >>
                /\ error' = env.open_error
                /\ pc' = "except"
                /\ UNCHANGED << text, outcome >>
           ELSE /\ events' = events \o << Event("_pick_engine", "ok"),
                                          Event("ExcelFile", "ok") >>
                /\ text' = sheet_text(env.df, env.max_rows, env.max_cols)
                /\ outcome' = Return(text')
                /\ pc' = "done"
                /\ UNCHANGED error
    /\ UNCHANGED sheetFrame

\* office_doc_extraction.py:229-235: no fallback_extractor attribute is set
\* by __init__ (188-200) or by the base class, so reading it raises
Spreadsheet_except ==
    /\ pc = "except"
    /\ IF mentions_zip_file(error)
       THEN outcome' = Raise(SheetError("AttributeError", << "n", "o", " ", "a", "t", "t", "r", "i", "b", "u", "t", "e", " ", "'", "f", "a", "l", "l", "b", "a", "c", "k", "_", "e", "x", "t", "r", "a", "c", "t", "o", "r", "'" >>))
       ELSE outcome' = Raise(error)
    /\ pc' = "done"
    /\ UNCHANGED << events, error, text, sheetFrame >>

NextSpreadsheet ==
    Spreadsheet_call \/ _read_delimited \/ _read_excel_like \/ Spreadsheet_except

SpecSpreadsheet == InitSpreadsheet /\ [][NextSpreadsheet]_vars

\* ---------------------------------------------------------------------------
\* C25: the text of a sheet of a binary spreadsheet is that of the frame with
\* its empty rows and empty columns dropped first and max_rows/max_cols
\* applied to what remains.
C25_EmptyDroppedBeforeLimits ==
    (pc = "done" /\ Called("ExcelFile") /\ ~ Failed("ExcelFile")) =>
        text = _df_to_text(limit(dropna_cols(dropna_rows(env.df)),
                                 env.max_rows, env.max_cols), "S1")

\* ---------------------------------------------------------------------------
\* C26: an exception raised while the file is read reaches the caller as that
\* same exception, whatever its message.
C26_ReadErrorReachesCaller ==
    (pc = "done" /\ (Failed("open") \/ Failed("ExcelFile") \/ Failed("_pick_engine"))) =>
        outcome = Raise(error)

(***************************************************************************)
(* SpecImage: ImageTextExtractor.__call__ on one file.  A frame is an      *)
(* image with its shape, the rotation applied to it so far, and what the   *)
(* two Tesseract passes answer for it.                                     *)
(***************************************************************************)
MaxFrames == 2

\* image_extraction.py:39
default_image_dpi == 300

Image(portrait, letter) ==
    [portrait |-> portrait, letter |-> letter, angle |-> 0, dpi |-> 0,
     preprocessed |-> FALSE]

\* Image.rotate(a, expand=True): a quarter turn exchanges width and height
rotate(img, a) ==
    [img EXCEPT !.angle = (img.angle + a) % 360,
                !.portrait = IF a % 180 = 90 THEN ~ img.portrait ELSE img.portrait]

\* image_extraction.py:141-154
_ensure_longside_bottom(img) ==
    IF ~ img.letter /\ img.portrait THEN rotate(img, 90) ELSE img

\* image_extraction.py:175-183
_inject_dpi(img) ==
    IF img.dpi = 0 THEN [img EXCEPT !.dpi = default_image_dpi] ELSE img

\* image_extraction.py:120-139
_preprocess(img) == [img EXCEPT !.preprocessed = TRUE]

\* the rotate field of an answer whose output has no "Rotate: N" line
NoMatch == -1

\* the answers of pytesseract.image_to_osd: the angle of the "Rotate: N" line
\* of the output, or TesseractError
OsdAnswers ==
    { [error |-> "None", rotate |-> r] : r \in { 0, 90, NoMatch } }
        \cup { [error |-> "TesseractError", rotate |-> NoMatch] }

\* the answers of pytesseract.image_to_string
OcrAnswers ==
    { [error |-> "None", text |-> << "a" >>],
      [error |-> "TesseractError", text |-> << >>] }

\* a detection that lets TesseractError leave the method
detect_and_correct_orientation_uncaught(img, installed, osd) ==
    IF ~ installed THEN [raised |-> "TesseractNotFoundError", result |-> "TesseractNotFoundError", img |-> img]
    ELSE IF osd.error # "None"
         THEN [raised |-> osd.error, result |-> osd.error, img |-> img]
    ELSE IF osd.rotate # NoMatch /\ osd.rotate # 0
         THEN [raised |-> "None", result |-> "ok", img |-> rotate(img, 360 - osd.rotate)]
    ELSE [raised |-> "None", result |-> "ok", img |-> img]

\* image_extraction.py:156-173: `raised` is the exception that leaves the
\* method, `result` what image_to_osd did, `img` the image returned
detect_and_correct_orientation(img, installed, osd) ==
    IF ~ installed THEN [raised |-> "TesseractNotFoundError", result |-> "TesseractNotFoundError", img |-> img]
    ELSE IF osd.error # "None"
         THEN [raised |-> "None", result |-> osd.error, img |-> img]
    ELSE IF osd.rotate # NoMatch /\ osd.rotate # 0
         THEN [raised |-> "None", result |-> "ok", img |-> rotate(img, 360 - osd.rotate)]
    ELSE [raised |-> "None", result |-> "ok", img |-> img]

Frames ==
    { [img |-> Image(p, FALSE), osd |-> o, ocr |-> t] :
        p \in BOOLEAN, o \in OsdAnswers, t \in OcrAnswers }

FrameLists == UNION { [1..n -> Frames] : n \in 1..MaxFrames }

ImageFiles == { NoFile, Directory, [NoFile EXCEPT !.exists = TRUE, !.is_file = TRUE] }

\* what Image.open raises on a file that holds no image
LoadErrors == { "None", "UnidentifiedImageError" }

ImageEvent(call, result, img) == [call |-> call, result |-> result, img |-> img]

InitImage ==
    /\ pc = "call"
    /\ env \in [ file : ImageFiles, tesseract : BOOLEAN, load_error : LoadErrors,
                 frames : FrameLists ]
    /\ events = << >>
    /\ converted = None
    /\ outcome = None
    /\ text = None
    /\ calls = << >>
    /\ has_unidecode = None
    /\ file_path = None
    /\ extractors = None
    /\ extractor = None
    /\ handler = None
    /\ error = None
    /\ normalized = << >>
    /\ mime = None
    /\ IdlePdf

imageFrame ==
    << dispatchVars, calls, has_unidecode, pdf_file, pdf, doc, extracted_text, exc,
       ocr_params, ocr_calls, get_text_calls, temp_dirs, direct_text, ocr_output,
       computes, reads, env, handler, error, normalized, mime >>

\* image_extraction.py:70-74 and 98-118: the existence test and _load_images
Image_call ==
    /\ pc = "call"
    /\ IF ~ env.file.exists
       THEN /\ outcome' = Raise("FileNotFoundError")
            /\ pc' = "done"
            /\ UNCHANGED text
       ELSE IF ~ env.file.is_file
       THEN /\ outcome' = Raise("IsADirectoryError")
            /\ pc' = "done"
            /\ UNCHANGED text
       ELSE IF env.load_error # "None"
       THEN /\ outcome' = Raise(env.load_error)
            /\ pc' = "done"
            /\ UNCHANGED text
       ELSE /\ text' = << >>
            /\ pc' = "orient"
            /\ UNCHANGED outcome
    /\ UNCHANGED << events, converted, imageFrame >>

\* image_extraction.py:77-81: the frame after Len(text) finished ones
OrientFrame ==
    /\ pc = "orient"
    /\ LET frame == env.frames[Len(text) + 1]
           img == _inject_dpi(_ensure_longside_bottom(frame.img))
           r == detect_and_correct_orientation(img, env.tesseract, frame.osd)
       IN  /\ events' = Append(events, ImageEvent("image_to_osd", r.result, img))
           /\ IF r.raised # "None"
              THEN /\ outcome' = Raise(r.raised)
                   /\ pc' = "done"
                   /\ UNCHANGED converted
              ELSE /\ converted' = r.img
                   /\ pc' = "ocr"
                   /\ UNCHANGED outcome
    /\ UNCHANGED << text, imageFrame >>

\* image_extraction.py:82-95, with preprocess at its default
OcrFrame ==
    /\ pc = "ocr"
    /\ LET frame == env.frames[Len(text) + 1]
           img == _preprocess(converted)
       IN  IF frame.ocr.error # "None"
           THEN /\ events' = Append(events, ImageEvent("image_to_string", frame.ocr.error, img))
                /\ outcome' = Raise(frame.ocr.error)
                /\ pc' = "done"
                /\ UNCHANGED text
           ELSE /\ events' = Append(events, ImageEvent("image_to_string", "ok", img))
                /\ text' = Append(text, frame.ocr.text)
                /\ IF Len(text') = Len(env.frames)
                   THEN /\ outcome' = Return(join(<< "\n" >>, text'))
                        /\ pc' = "done"
                   ELSE /\ pc' = "orient"
                        /\ UNCHANGED outcome
    /\ UNCHANGED << converted, imageFrame >>

NextImage == Image_call \/ OrientFrame \/ OcrFrame

SpecImage == InitImage /\ [][NextImage]_vars

OsdFailures(results) ==
    { k \in DOMAIN events : events[k].call = "image_to_osd" /\ events[k].result \in results }

\* the detection numbered k is followed by the main pass on the image the
\* detection was given, or that pass is the next step
PassedOnUnrotated(k) ==
    IF k = Len(events)
    THEN pc = "ocr" /\ converted = events[k].img
    ELSE /\ events[k + 1].call = "image_to_string"
         /\ events[k + 1].img = _preprocess(events[k].img)

MissingPathFails ==
    (pc = "done" /\ ~ env.file.exists) =>
        outcome = Raise("FileNotFoundError") /\ events = << >>

MainFailureEndsCall ==
    \A k \in DOMAIN events :
        (events[k].call = "image_to_string" /\ events[k].result # "ok") =>
            /\ k = Len(events)
            /\ pc = "done"
            /\ outcome = Raise(events[k].result)

\* ---------------------------------------------------------------------------
\* C21 as stated: a missing path fails with FileNotFoundError; every failure
\* of the orientation detection leaves the call running, the frame going
\* unrotated to the main pass; a failure of the main pass ends the call with
\* that error and no text.
C21_AnyDetectionFailureNonFatal ==
    /\ MissingPathFails
    /\ \A k \in OsdFailures({ "TesseractError", "TesseractNotFoundError" }) :
            PassedOnUnrotated(k)
    /\ MainFailureEndsCall

\* C21, amended: a missing path fails with FileNotFoundError; a TesseractError
\* of the orientation detection leaves the call running, the frame going
\* unrotated to the main pass, while any other exception of the detection
\* ends the call with that exception; a failure of the main pass ends the
\* call with that error and no text.
C21_TesseractErrorOfDetectionNonFatal ==
    /\ MissingPathFails
    /\ \A k \in OsdFailures({ "TesseractError" }) : PassedOnUnrotated(k)
    /\ \A k \in OsdFailures({ "TesseractNotFoundError" }) :
            k = Len(events) /\ pc = "done" /\ outcome = Raise(events[k].result)
    /\ MainFailureEndsCall

\* the detection failed on the first frame and the main pass on the second
C21_Witness ==
    /\ pc = "done"
    /\ Len(events) = 4
    /\ events[1].result = "TesseractError"
    /\ events[2].call = "image_to_string" /\ events[2].result = "ok"
    /\ events[4].call = "image_to_string" /\ events[4].result = "TesseractError"
    /\ outcome = Raise("TesseractError")

====
